---- MODULE Spec2Model ----
(***************************************************************************)
(* A model of the oxidx wrapper layer: descriptor-to-native conversions    *)
(* (conv.rs), the device and command-queue operations (device.rs,          *)
(* command_queue.rs) and the default-buffer upload helper (utils.rs).      *)
(*                                                                         *)
(* The wrapper is stateless: every operation takes its inputs, calls the   *)
(* layer below it (the native API) and returns.  The state of the model is *)
(* therefore the last operation a client ran: its name, its input, the     *)
(* calls it made to the layer below in order, the scratch array it built   *)
(* and what it returned.  The native layer is the environment: what each   *)
(* native call answers is chosen nondeterministically.  A panic ends the   *)
(* program.                                                                *)
(***************************************************************************)
EXTENDS Integers, Sequences, FiniteSets, TLC

VARIABLES
    op,        \* name of the last wrapper operation that ran
    arg,       \* its input
    calls,     \* the calls it made to the layer below, in order
    scratch,   \* the SmallVec scratch array it built (if any)
    ret,       \* what it returned: Ok / Err / Return (unit) / Panic
    refs,      \* native reference count of each native object
    live,      \* number of wrappers of each native object the client holds
    queue,     \* work the command queue has accepted and the GPU has not done
    fences,    \* the value of each fence
    accepted,  \* number of ExecuteCommandLists batches the queue accepted
    completed, \* number of those the GPU has completed
    mem        \* the storage of each scratch array: live or freed, and what it holds

gpu == <<queue, fences, accepted, completed>>
vars == <<op, arg, calls, scratch, ret, refs, live, queue, fences, accepted, completed,
          mem>>

(***************************************************************************)
(* Bounds of the model.                                                    *)
(***************************************************************************)
MaxField == 1       \* payload fields of a view dimension range over 0..MaxField
MaxRegister == 1    \* shader registers / spaces / counts range over 0..MaxRegister
MaxRanges == 2      \* descriptor ranges of a descriptor table: 0..MaxRanges
MaxSamplers == 1    \* static samplers of a root signature: 0..MaxSamplers
MaxLists == 17      \* command lists handed to execute_command_lists: 0..MaxLists
MaxBase == 3        \* longer iterables repeat a base sequence of 1..MaxBase lists
MaxData == 2        \* elements of the data slice of create_default_buffer
MaxMask == 1        \* node masks, priorities, flag bit patterns: 0..MaxMask
MaxLive == 3        \* wrappers the client holds at a time: 0..MaxLive
MaxQueue == 2       \* work items pending on the command queue: 0..MaxQueue
MaxSubmit == 2      \* batches submitted to the command queue: 0..MaxSubmit
MaxValue == 1       \* fence values signalled: 1..MaxValue
MaxRepr == 7        \* native integers handed to from_repr: -1..MaxRepr
MaxBit == 2         \* bit positions of a native flags value: 0..MaxBit
MaxUnits == 3       \* size of an inner type, in units of its alignment
MaxFile == 2        \* bytes of a file handed to load_binary: 0..MaxFile
MaxTicks == 2       \* timestamp counters the native layer reports: 0..MaxTicks
MaxLevels == 9      \* feature levels requested of a feature query: 0..MaxLevels
UsizeBits == 3      \* width of usize, scaled down: addresses are 0..2^UsizeBits - 1

(***************************************************************************)
(* Program constants.                                                      *)
(***************************************************************************)
InlineCap == 16     \* SmallVec<[_; 16]>
ConstantBufferAlign == 256  \* #[repr(align(256))]
FeatureLevelsInlineCap == 8 \* SmallVec<[_; 8]>

(***************************************************************************)
(* Rust values.                                                            *)
(***************************************************************************)
None == [some |-> FALSE]
Some(x) == [some |-> TRUE, v |-> x]

Ok(v) == [kind |-> "Ok", value |-> v]
Err(e) == [kind |-> "Err", err |-> e]
Return == [kind |-> "Return"]
Panic(m) == [kind |-> "Panic", msg |-> m]

Max(a, b) == IF a > b THEN a ELSE b

(***************************************************************************)
(* The native layer's answers.                                             *)
(***************************************************************************)
FailureCodes == {"E_FAIL", "E_OUTOFMEMORY"}
NativeObjects == {"objA", "objB"}

\* A raw interface pointer, as the windows crate hands it out.
Raw(iface, obj) == [iface |-> iface, obj |-> obj]

\* create_type!: a wrapper holding the raw interface; new(raw) wraps it.
New(type, raw) == [type |-> type, raw |-> raw]
as_raw(h) == h.raw
as_raw_ref(h) == h.raw

(***************************************************************************)
(* conv.rs: enums and flag sets.  An enum value is modelled by its variant *)
(* name; its discriminant is the native constant it is declared with.      *)
(***************************************************************************)
Formats == {"Unknown", "Rgba8Unorm"}

\* enum Format (declared outside the files at hand): variant -> native constant
FormatDiscriminant(f) ==
    CASE f = "Unknown" -> "DXGI_FORMAT_UNKNOWN"
      [] f = "Rgba8Unorm" -> "DXGI_FORMAT_R8G8B8A8_UNORM"

Format_as_raw(f) == [DXGI_FORMAT |-> FormatDiscriminant(f)]

CommandListTypes == {"Direct", "Bundle", "Compute", "Copy"}

CommandListTypeDiscriminant(t) ==
    CASE t = "Direct" -> "D3D12_COMMAND_LIST_TYPE_DIRECT"
      [] t = "Bundle" -> "D3D12_COMMAND_LIST_TYPE_BUNDLE"
      [] t = "Compute" -> "D3D12_COMMAND_LIST_TYPE_COMPUTE"
      [] t = "Copy" -> "D3D12_COMMAND_LIST_TYPE_COPY"
      [] t = "VideoDecode" -> "D3D12_COMMAND_LIST_TYPE_VIDEO_DECODE"
      [] t = "VideoProcess" -> "D3D12_COMMAND_LIST_TYPE_VIDEO_PROCESS"
      [] t = "VideoEncode" -> "D3D12_COMMAND_LIST_TYPE_VIDEO_ENCODE"

CommandListType_as_raw(t) == [D3D12_COMMAND_LIST_TYPE |-> CommandListTypeDiscriminant(t)]

DescriptorHeapTypes == {"Rtv", "Dsv", "CbvSrvUav", "Sampler"}

\* A variant with the arms of Rtv and Dsv exchanged.
DescriptorHeapType_as_raw_swapped(t) ==
    CASE t = "Rtv" -> "D3D12_DESCRIPTOR_HEAP_TYPE_DSV"
      [] t = "Dsv" -> "D3D12_DESCRIPTOR_HEAP_TYPE_RTV"
      [] t = "CbvSrvUav" -> "D3D12_DESCRIPTOR_HEAP_TYPE_CBV_SRV_UAV"
      [] t = "Sampler" -> "D3D12_DESCRIPTOR_HEAP_TYPE_SAMPLER"

DescriptorHeapType_as_raw(t) ==
    CASE t = "Rtv" -> "D3D12_DESCRIPTOR_HEAP_TYPE_RTV"
      [] t = "Dsv" -> "D3D12_DESCRIPTOR_HEAP_TYPE_DSV"
      [] t = "CbvSrvUav" -> "D3D12_DESCRIPTOR_HEAP_TYPE_CBV_SRV_UAV"
      [] t = "Sampler" -> "D3D12_DESCRIPTOR_HEAP_TYPE_SAMPLER"

ShaderVisibilities == {"All", "Vertex", "Pixel"}

\* enum ShaderVisibility (declared outside the files at hand)
ShaderVisibilityDiscriminant(v) ==
    CASE v = "All" -> "D3D12_SHADER_VISIBILITY_ALL"
      [] v = "Vertex" -> "D3D12_SHADER_VISIBILITY_VERTEX"
      [] v = "Pixel" -> "D3D12_SHADER_VISIBILITY_PIXEL"

ShaderVisibility_as_raw(v) == [D3D12_SHADER_VISIBILITY |-> ShaderVisibilityDiscriminant(v)]

RootSignatureVersions == {"V1_0", "V1_1"}

\* enum RootSignatureVersion (declared outside the files at hand)
RootSignatureVersionDiscriminant(v) ==
    CASE v = "V1_0" -> "D3D_ROOT_SIGNATURE_VERSION_1_0"
      [] v = "V1_1" -> "D3D_ROOT_SIGNATURE_VERSION_1_1"

RootSignatureVersion_as_raw(v) == [D3D_ROOT_SIGNATURE_VERSION |-> RootSignatureVersionDiscriminant(v)]

\* A bitflags value is its bit pattern.
FlagSets == {[bits |-> b] : b \in 0..MaxMask}
bits(f) == f.bits

FenceFlags_as_raw(f) == [D3D12_FENCE_FLAGS |-> bits(f)]
DescriptorHeapFlags_as_raw(f) == [D3D12_DESCRIPTOR_HEAP_FLAGS |-> bits(f)]
RootSignatureFlags_as_raw(f) == [D3D12_ROOT_SIGNATURE_FLAGS |-> bits(f)]

(***************************************************************************)
(* types/enums.rs: the enums that derive FromRepr, each as its variants in *)
(* declaration order with the native constant (or literal) it is declared  *)
(* with.                                                                   *)
(***************************************************************************)
\* The value of a native constant.
NativeConstant(c) ==
    CASE c = "0" -> 0
      [] c = "D3D12_COMMAND_QUEUE_PRIORITY_NORMAL" -> 0
      [] c = "D3D12_COMMAND_QUEUE_PRIORITY_HIGH" -> 100
      [] c = "D3D12_COMMAND_QUEUE_PRIORITY_GLOBAL_REALTIME" -> 10000
      [] c = "D3D12_COMMAND_LIST_TYPE_DIRECT" -> 0
      [] c = "D3D12_COMMAND_LIST_TYPE_BUNDLE" -> 1
      [] c = "D3D12_COMMAND_LIST_TYPE_COMPUTE" -> 2
      [] c = "D3D12_COMMAND_LIST_TYPE_COPY" -> 3
      [] c = "D3D12_COMMAND_LIST_TYPE_VIDEO_DECODE" -> 4
      [] c = "D3D12_COMMAND_LIST_TYPE_VIDEO_PROCESS" -> 5
      [] c = "D3D12_COMMAND_LIST_TYPE_VIDEO_ENCODE" -> 6
      [] c = "D3D12_CPU_PAGE_PROPERTY_UNKNOWN" -> 0
      [] c = "D3D12_CPU_PAGE_PROPERTY_NOT_AVAILABLE" -> 1
      [] c = "D3D12_CPU_PAGE_PROPERTY_WRITE_COMBINE" -> 2
      [] c = "D3D12_CPU_PAGE_PROPERTY_WRITE_BACK" -> 3
      [] c = "D3D12_DESCRIPTOR_HEAP_TYPE_RTV" -> 2
      [] c = "D3D12_DESCRIPTOR_HEAP_TYPE_DSV" -> 3
      [] c = "D3D12_DESCRIPTOR_HEAP_TYPE_CBV_SRV_UAV" -> 0
      [] c = "D3D12_DESCRIPTOR_HEAP_TYPE_SAMPLER" -> 1
      [] c = "D3D12_FEATURE_D3D12_OPTIONS" -> 0
      [] c = "D3D12_FEATURE_ARCHITECTURE" -> 1
      [] c = "D3D12_FEATURE_FEATURE_LEVELS" -> 2
      [] c = "D3D12_FEATURE_FORMAT_SUPPORT" -> 3
      [] c = "D3D12_FEATURE_MULTISAMPLE_QUALITY_LEVELS" -> 4
      [] c = "D3D12_FEATURE_FORMAT_INFO" -> 5
      [] c = "D3D12_FEATURE_GPU_VIRTUAL_ADDRESS_SUPPORT" -> 6
      [] c = "D3D12_FEATURE_SHADER_MODEL" -> 7
      [] c = "D3D12_FEATURE_D3D12_OPTIONS1" -> 8
      [] c = "D3D12_FEATURE_PROTECTED_RESOURCE_SESSION_SUPPORT" -> 10
      [] c = "D3D12_FEATURE_ROOT_SIGNATURE" -> 12
      [] c = "D3D12_FEATURE_ARCHITECTURE1" -> 16
      [] c = "D3D12_FEATURE_D3D12_OPTIONS2" -> 18
      [] c = "D3D12_FEATURE_SHADER_CACHE" -> 19
      [] c = "D3D12_FEATURE_COMMAND_QUEUE_PRIORITY" -> 20
      [] c = "D3D12_FEATURE_D3D12_OPTIONS3" -> 21
      [] c = "D3D12_FEATURE_EXISTING_HEAPS" -> 22
      [] c = "D3D12_FEATURE_D3D12_OPTIONS4" -> 23
      [] c = "D3D12_FEATURE_SERIALIZATION" -> 24
      [] c = "D3D12_FEATURE_CROSS_NODE" -> 25
      [] c = "D3D12_FEATURE_D3D12_OPTIONS5" -> 27
      [] c = "D3D12_FEATURE_DISPLAYABLE" -> 28
      [] c = "D3D12_FEATURE_D3D12_OPTIONS6" -> 30
      [] c = "D3D12_FEATURE_QUERY_META_COMMAND" -> 31
      [] c = "D3D12_FEATURE_D3D12_OPTIONS7" -> 32
      [] c = "D3D12_FEATURE_PROTECTED_RESOURCE_SESSION_TYPE_COUNT" -> 33
      [] c = "D3D12_FEATURE_PROTECTED_RESOURCE_SESSION_TYPES" -> 34
      [] c = "D3D12_FEATURE_D3D12_OPTIONS8" -> 36
      [] c = "D3D12_FEATURE_D3D12_OPTIONS9" -> 37
      [] c = "D3D12_FEATURE_D3D12_OPTIONS10" -> 39
      [] c = "D3D12_FEATURE_D3D12_OPTIONS11" -> 40
      [] c = "D3D12_FEATURE_D3D12_OPTIONS12" -> 41
      [] c = "D3D12_FEATURE_D3D12_OPTIONS13" -> 42
      [] c = "D3D12_FEATURE_D3D12_OPTIONS14" -> 43
      [] c = "D3D12_FEATURE_D3D12_OPTIONS15" -> 44
      [] c = "D3D12_FEATURE_D3D12_OPTIONS16" -> 45
      [] c = "D3D12_FEATURE_D3D12_OPTIONS17" -> 46
      [] c = "D3D12_FEATURE_D3D12_OPTIONS18" -> 47
      [] c = "D3D12_FEATURE_D3D12_OPTIONS19" -> 48
      [] c = "D3D12_FEATURE_D3D12_OPTIONS20" -> 49
      [] c = "D3D12_FEATURE_PREDICATION" -> 50
      [] c = "D3D12_FEATURE_PLACED_RESOURCE_SUPPORT_INFO" -> 51
      [] c = "D3D12_FEATURE_HARDWARE_COPY" -> 52
      [] c = "D3D12_DEFAULT_RESOURCE_PLACEMENT_ALIGNMENT" -> 65536
      [] c = "D3D12_DEFAULT_MSAA_RESOURCE_PLACEMENT_ALIGNMENT" -> 4194304
      [] c = "D3D12_HEAP_TYPE_DEFAULT" -> 1
      [] c = "D3D12_HEAP_TYPE_UPLOAD" -> 2
      [] c = "D3D12_HEAP_TYPE_READBACK" -> 3
      [] c = "D3D12_HEAP_TYPE_CUSTOM" -> 4
      [] c = "D3D12_HEAP_TYPE_GPU_UPLOAD" -> 5
      [] c = "D3D12_MEMORY_POOL_UNKNOWN" -> 0
      [] c = "D3D12_MEMORY_POOL_L0" -> 1
      [] c = "D3D12_MEMORY_POOL_L1" -> 2
      [] c = "D3D12_COMMAND_QUEUE_FLAG_DISABLE_GPU_TIMEOUT" -> 1
      [] c = "DXGI_ADAPTER_FLAG_REMOTE" -> 1
      [] c = "DXGI_ADAPTER_FLAG_SOFTWARE" -> 2

EnumNames ==
    {"CommandQueuePriority",
     "CommandListType",
     "CpuPageProperty",
     "DescriptorHeapType",
     "FeatureType",
     "HeapAlignment",
     "HeapType",
     "MemoryPool"}

EnumDecl(E) ==
    CASE E = "CommandQueuePriority" ->
        <<[variant |-> "Normal", constant |-> "D3D12_COMMAND_QUEUE_PRIORITY_NORMAL"],
          [variant |-> "High", constant |-> "D3D12_COMMAND_QUEUE_PRIORITY_HIGH"],
          [variant |-> "GlobalRealtime", constant |-> "D3D12_COMMAND_QUEUE_PRIORITY_GLOBAL_REALTIME"]>>
      [] E = "CommandListType" ->
        <<[variant |-> "Direct", constant |-> "D3D12_COMMAND_LIST_TYPE_DIRECT"],
          [variant |-> "Bundle", constant |-> "D3D12_COMMAND_LIST_TYPE_BUNDLE"],
          [variant |-> "Compute", constant |-> "D3D12_COMMAND_LIST_TYPE_COMPUTE"],
          [variant |-> "Copy", constant |-> "D3D12_COMMAND_LIST_TYPE_COPY"],
          [variant |-> "VideoDecode", constant |-> "D3D12_COMMAND_LIST_TYPE_VIDEO_DECODE"],
          [variant |-> "VideoProcess", constant |-> "D3D12_COMMAND_LIST_TYPE_VIDEO_PROCESS"],
          [variant |-> "VideoEncode", constant |-> "D3D12_COMMAND_LIST_TYPE_VIDEO_ENCODE"]>>
      [] E = "CpuPageProperty" ->
        <<[variant |-> "Unknown", constant |-> "D3D12_CPU_PAGE_PROPERTY_UNKNOWN"],
          [variant |-> "NotAvailable", constant |-> "D3D12_CPU_PAGE_PROPERTY_NOT_AVAILABLE"],
          [variant |-> "WriteCombine", constant |-> "D3D12_CPU_PAGE_PROPERTY_WRITE_COMBINE"],
          [variant |-> "WriteBack", constant |-> "D3D12_CPU_PAGE_PROPERTY_WRITE_BACK"]>>
      [] E = "DescriptorHeapType" ->
        <<[variant |-> "Rtv", constant |-> "D3D12_DESCRIPTOR_HEAP_TYPE_RTV"],
          [variant |-> "Dsv", constant |-> "D3D12_DESCRIPTOR_HEAP_TYPE_DSV"],
          [variant |-> "CbvSrvUav", constant |-> "D3D12_DESCRIPTOR_HEAP_TYPE_CBV_SRV_UAV"],
          [variant |-> "Sampler", constant |-> "D3D12_DESCRIPTOR_HEAP_TYPE_SAMPLER"]>>
      [] E = "FeatureType" ->
        <<[variant |-> "Options", constant |-> "D3D12_FEATURE_D3D12_OPTIONS"],
          [variant |-> "Architecture", constant |-> "D3D12_FEATURE_ARCHITECTURE"],
          [variant |-> "FeatureLevels", constant |-> "D3D12_FEATURE_FEATURE_LEVELS"],
          [variant |-> "FormatSupport", constant |-> "D3D12_FEATURE_FORMAT_SUPPORT"],
          [variant |-> "MultisampleQualityLevels", constant |-> "D3D12_FEATURE_MULTISAMPLE_QUALITY_LEVELS"],
          [variant |-> "FormatInfo", constant |-> "D3D12_FEATURE_FORMAT_INFO"],
          [variant |-> "GpuVirtualAddressSupport", constant |-> "D3D12_FEATURE_GPU_VIRTUAL_ADDRESS_SUPPORT"],
          [variant |-> "FeatureShaderModel", constant |-> "D3D12_FEATURE_SHADER_MODEL"],
          [variant |-> "Options1", constant |-> "D3D12_FEATURE_D3D12_OPTIONS1"],
          [variant |-> "ProtectedResourceSessionSupport", constant |-> "D3D12_FEATURE_PROTECTED_RESOURCE_SESSION_SUPPORT"],
          [variant |-> "RootSignature", constant |-> "D3D12_FEATURE_ROOT_SIGNATURE"],
          [variant |-> "Architecture1", constant |-> "D3D12_FEATURE_ARCHITECTURE1"],
          [variant |-> "Options2", constant |-> "D3D12_FEATURE_D3D12_OPTIONS2"],
          [variant |-> "ShaderCache", constant |-> "D3D12_FEATURE_SHADER_CACHE"],
          [variant |-> "CommandQueuePriority", constant |-> "D3D12_FEATURE_COMMAND_QUEUE_PRIORITY"],
          [variant |-> "Options3", constant |-> "D3D12_FEATURE_D3D12_OPTIONS3"],
          [variant |-> "ExistingHeaps", constant |-> "D3D12_FEATURE_EXISTING_HEAPS"],
          [variant |-> "Options4", constant |-> "D3D12_FEATURE_D3D12_OPTIONS4"],
          [variant |-> "Serialization", constant |-> "D3D12_FEATURE_SERIALIZATION"],
          [variant |-> "CrossNode", constant |-> "D3D12_FEATURE_CROSS_NODE"],
          [variant |-> "Options5", constant |-> "D3D12_FEATURE_D3D12_OPTIONS5"],
          [variant |-> "Displayable", constant |-> "D3D12_FEATURE_DISPLAYABLE"],
          [variant |-> "Options6", constant |-> "D3D12_FEATURE_D3D12_OPTIONS6"],
          [variant |-> "QueryMetaCommand", constant |-> "D3D12_FEATURE_QUERY_META_COMMAND"],
          [variant |-> "Options7", constant |-> "D3D12_FEATURE_D3D12_OPTIONS7"],
          [variant |-> "ProtectedResourceSessionTypeCount", constant |-> "D3D12_FEATURE_PROTECTED_RESOURCE_SESSION_TYPE_COUNT"],
          [variant |-> "ProtectedResourceSessionTypes", constant |-> "D3D12_FEATURE_PROTECTED_RESOURCE_SESSION_TYPES"],
          [variant |-> "Options8", constant |-> "D3D12_FEATURE_D3D12_OPTIONS8"],
          [variant |-> "Options9", constant |-> "D3D12_FEATURE_D3D12_OPTIONS9"],
          [variant |-> "Options10", constant |-> "D3D12_FEATURE_D3D12_OPTIONS10"],
          [variant |-> "Options11", constant |-> "D3D12_FEATURE_D3D12_OPTIONS11"],
          [variant |-> "Options12", constant |-> "D3D12_FEATURE_D3D12_OPTIONS12"],
          [variant |-> "Options13", constant |-> "D3D12_FEATURE_D3D12_OPTIONS13"],
          [variant |-> "Options14", constant |-> "D3D12_FEATURE_D3D12_OPTIONS14"],
          [variant |-> "Options15", constant |-> "D3D12_FEATURE_D3D12_OPTIONS15"],
          [variant |-> "Options16", constant |-> "D3D12_FEATURE_D3D12_OPTIONS16"],
          [variant |-> "Options17", constant |-> "D3D12_FEATURE_D3D12_OPTIONS17"],
          [variant |-> "Options18", constant |-> "D3D12_FEATURE_D3D12_OPTIONS18"],
          [variant |-> "Options19", constant |-> "D3D12_FEATURE_D3D12_OPTIONS19"],
          [variant |-> "Options20", constant |-> "D3D12_FEATURE_D3D12_OPTIONS20"],
          [variant |-> "Predication", constant |-> "D3D12_FEATURE_PREDICATION"],
          [variant |-> "PlacedResourceSupportInfo", constant |-> "D3D12_FEATURE_PLACED_RESOURCE_SUPPORT_INFO"],
          [variant |-> "HardwareCopy", constant |-> "D3D12_FEATURE_HARDWARE_COPY"]>>
      [] E = "HeapAlignment" ->
        <<[variant |-> "Default", constant |-> "0"],
          [variant |-> "ResourcePlacement", constant |-> "D3D12_DEFAULT_RESOURCE_PLACEMENT_ALIGNMENT"],
          [variant |-> "MsaaResourcePlacement", constant |-> "D3D12_DEFAULT_MSAA_RESOURCE_PLACEMENT_ALIGNMENT"]>>
      [] E = "HeapType" ->
        <<[variant |-> "Default", constant |-> "D3D12_HEAP_TYPE_DEFAULT"],
          [variant |-> "Upload", constant |-> "D3D12_HEAP_TYPE_UPLOAD"],
          [variant |-> "Readback", constant |-> "D3D12_HEAP_TYPE_READBACK"],
          [variant |-> "Custom", constant |-> "D3D12_HEAP_TYPE_CUSTOM"],
          [variant |-> "GpuUpload", constant |-> "D3D12_HEAP_TYPE_GPU_UPLOAD"]>>
      [] E = "MemoryPool" ->
        <<[variant |-> "Unknown", constant |-> "D3D12_MEMORY_POOL_UNKNOWN"],
          [variant |-> "L0", constant |-> "D3D12_MEMORY_POOL_L0"],
          [variant |-> "L1", constant |-> "D3D12_MEMORY_POOL_L1"]>>

Variants(E) == {EnumDecl(E)[i].variant : i \in DOMAIN EnumDecl(E)}

\* The discriminant of a variant: `*self as i32`.
Repr(E, v) ==
    NativeConstant(
        EnumDecl(E)[CHOOSE i \in DOMAIN EnumDecl(E) : EnumDecl(E)[i].variant = v].constant)

\* #[derive(FromRepr)]: the first variant declared with the discriminant.
from_repr(E, n) ==
    LET decl == EnumDecl(E)
        hits == {i \in DOMAIN decl : NativeConstant(decl[i].constant) = n}
    IN IF hits = {} THEN None
       ELSE Some(decl[CHOOSE i \in hits : \A j \in hits : i <= j].variant)

\* The enums among these with an as_raw conversion, and the native value
\* it returns.
EnumsWithAsRaw == {"CommandListType", "DescriptorHeapType"}

Enum_as_raw(E, v) ==
    IF E = "DescriptorHeapType"
    THEN NativeConstant(DescriptorHeapType_as_raw(v))
    ELSE NativeConstant(CommandListType_as_raw(v).D3D12_COMMAND_LIST_TYPE)

(***************************************************************************)
(* Flag sets (bitflags!).  A flag set value is its bit pattern; each flag  *)
(* of the type is declared with a native constant.                         *)
(***************************************************************************)
BitPositions == 0..MaxBit
BitPatterns == 0..(2^(MaxBit + 1) - 1)

Bit(n, i) == (n \div 2^i) % 2

RECURSIVE PatternOf(_)
PatternOf(positions) ==
    IF positions = {} THEN 0
    ELSE LET i == CHOOSE x \in positions : TRUE
         IN 2^i + PatternOf(positions \ {i})

BitAnd(a, b) == PatternOf({i \in BitPositions : Bit(a, i) = 1 /\ Bit(b, i) = 1})
BitOr(a, b) == PatternOf({i \in BitPositions : Bit(a, i) = 1 \/ Bit(b, i) = 1})
BitAndNot(a, b) == PatternOf({i \in BitPositions : Bit(a, i) = 1 /\ Bit(b, i) = 0})

FlagTypes == {"CommandQueueFlags", "AdapterFlags"}

\* bitflags! { struct AdapterFlags } (declared outside the files at hand):
\* the adapter flags the native API defines.
AdapterFlagsDecl ==
    <<[flag |-> "Remote", constant |-> "DXGI_ADAPTER_FLAG_REMOTE"],
      [flag |-> "Software", constant |-> "DXGI_ADAPTER_FLAG_SOFTWARE"]>>

\* bitflags! { struct CommandQueueFlags }
CommandQueueFlagsDecl ==
    <<[flag |-> "DisableGpuTimeout",
       constant |-> "D3D12_COMMAND_QUEUE_FLAG_DISABLE_GPU_TIMEOUT"]>>

FlagDecl(F) ==
    CASE F = "CommandQueueFlags" -> CommandQueueFlagsDecl
      [] F = "AdapterFlags" -> AdapterFlagsDecl

FlagsOf(F) == {FlagDecl(F)[i].flag : i \in DOMAIN FlagDecl(F)}

FlagBits(F, flag) ==
    NativeConstant(
        FlagDecl(F)[CHOOSE i \in DOMAIN FlagDecl(F) : FlagDecl(F)[i].flag = flag].constant)

RECURSIVE OrOf(_, _)
OrOf(F, S) ==
    IF S = {} THEN 0
    ELSE LET x == CHOOSE y \in S : TRUE
         IN BitOr(FlagBits(F, x), OrOf(F, S \ {x}))

empty == [bits |-> 0]
all(F) == [bits |-> OrOf(F, FlagsOf(F))]

\* The flag set built from a set of flags of the type: A | B | ..
FlagSetOf(F, S) == [bits |-> OrOf(F, S)]

from_bits(F, n) ==
    IF BitAndNot(n, bits(all(F))) = 0 THEN Some([bits |-> n]) ELSE None

contains(F, x, flag) == BitAnd(bits(x), FlagBits(F, flag)) = FlagBits(F, flag)
union(x, y) == [bits |-> BitOr(bits(x), bits(y))]
intersection(x, y) == [bits |-> BitAnd(bits(x), bits(y))]
difference(x, y) == [bits |-> BitAndNot(bits(x), bits(y))]

(***************************************************************************)
(* conv.rs: plain descriptors.                                             *)
(***************************************************************************)
CommandQueueDescs ==
    {[type |-> t, priority |-> p, flags |-> f, node_mask |-> m] :
        t \in CommandListTypes, p \in 0..MaxMask, f \in FlagSets, m \in 0..MaxMask}

\* A variant that leaves the native flags empty.
CommandQueueDesc_as_raw_no_flags(d) ==
    [Type |-> CommandListType_as_raw(d.type),
     Priority |-> d.priority,
     Flags |-> [D3D12_COMMAND_QUEUE_FLAGS |-> 0],
     NodeMask |-> d.node_mask]

CommandQueueDesc_as_raw(d) ==
    [Type |-> CommandListType_as_raw(d.type),
     Priority |-> d.priority,
     Flags |-> [D3D12_COMMAND_QUEUE_FLAGS |-> bits(d.flags)],
     NodeMask |-> d.node_mask]

DescriptorHeapDescs ==
    {[type |-> t, num |-> n, flags |-> f, node_mask |-> m] :
        t \in DescriptorHeapTypes, n \in 0..MaxMask, f \in FlagSets, m \in 0..MaxMask}

DescriptorHeapDesc_as_raw(d) ==
    [Type |-> DescriptorHeapType_as_raw(d.type),
     NumDescriptors |-> d.num,
     Flags |-> DescriptorHeapFlags_as_raw(d.flags),
     NodeMask |-> d.node_mask]

CpuDescriptorHandles == {[ptr |-> p] : p \in 0..MaxMask}

CpuDescriptorHandle_as_raw(h) == [ptr |-> h.ptr]

(***************************************************************************)
(* structs.rs: CpuDescriptorHandle::offset and GpuDescriptorHandle::offset.*)
(* The handle is a usize; + on usize panics on overflow in a build with    *)
(* overflow checks (the debug profile) and wraps in one without (the       *)
(* release profile).                                                       *)
(***************************************************************************)
UsizeMax == 2^UsizeBits - 1
Usizes == 0..UsizeMax

\* a + b on usize
usize_add(a, b, overflow_checks) ==
    IF a + b <= UsizeMax THEN Ok(a + b)
    ELSE IF overflow_checks THEN Panic("attempt to add with overflow")
    ELSE Ok((a + b) % (UsizeMax + 1))

\* Self(self.0 + offset): the receiver is borrowed and stays as it is.
CpuDescriptorHandle_offset(self, offset, overflow_checks) ==
    LET sum == usize_add(self.ptr, offset, overflow_checks)
    IN IF sum.kind = "Panic" THEN sum ELSE Ok([ptr |-> sum.value])

GpuDescriptorHandle_offset(self, offset, overflow_checks) ==
    LET sum == usize_add(self.ptr, offset, overflow_checks)
    IN IF sum.kind = "Panic" THEN sum ELSE Ok([ptr |-> sum.value])

DescriptorHandle_offset(type, self, offset, overflow_checks) ==
    IF type = "CpuDescriptorHandle"
    THEN CpuDescriptorHandle_offset(self, offset, overflow_checks)
    ELSE GpuDescriptorHandle_offset(self, offset, overflow_checks)

(***************************************************************************)
(* conv.rs: the render-target view descriptor and its view dimension, a    *)
(* sum type converted to a discriminant and a union by two matches.        *)
(***************************************************************************)
Field == 0..MaxField

ViewDimensions ==
    {[variant |-> "Buffer", first_element |-> a, num_elements |-> b] : a \in Field, b \in Field}
    \cup {[variant |-> "Tex1D", mip_slice |-> a] : a \in Field}
    \cup {[variant |-> "Tex2D", mip_slice |-> a, plane_slice |-> b] : a \in Field, b \in Field}
    \cup {[variant |-> "Tex3D", mip_slice |-> a, first_w_slice |-> b, w_size |-> c] :
            a \in Field, b \in Field, c \in Field}
    \cup {[variant |-> "ArrayTex1D", mip_slice |-> a, first_array_slice |-> b, array_size |-> c] :
            a \in Field, b \in Field, c \in Field}
    \cup {[variant |-> "ArrayTex2D", mip_slice |-> a, plane_slice |-> b,
           first_array_slice |-> c, array_size |-> d] :
            a \in Field, b \in Field, c \in Field, d \in Field}
    \cup {[variant |-> "Tex2DMs"]}
    \cup {[variant |-> "Array2DMs", first_array_slice |-> a, array_size |-> b] :
            a \in Field, b \in Field}

\* A slip in the discriminant match: the two multisampled arms exchanged.
ViewDimension_as_type_raw_swapped(d) ==
    CASE d.variant = "Buffer" -> "D3D12_RTV_DIMENSION_BUFFER"
      [] d.variant = "Tex1D" -> "D3D12_RTV_DIMENSION_TEXTURE1D"
      [] d.variant = "Tex2D" -> "D3D12_RTV_DIMENSION_TEXTURE2D"
      [] d.variant = "Tex3D" -> "D3D12_RTV_DIMENSION_TEXTURE3D"
      [] d.variant = "ArrayTex1D" -> "D3D12_RTV_DIMENSION_TEXTURE1DARRAY"
      [] d.variant = "ArrayTex2D" -> "D3D12_RTV_DIMENSION_TEXTURE2DARRAY"
      [] d.variant = "Tex2DMs" -> "D3D12_RTV_DIMENSION_TEXTURE2DMSARRAY"
      [] d.variant = "Array2DMs" -> "D3D12_RTV_DIMENSION_TEXTURE2DMS"

ViewDimension_as_type_raw(d) ==
    CASE d.variant = "Buffer" -> "D3D12_RTV_DIMENSION_BUFFER"
      [] d.variant = "Tex1D" -> "D3D12_RTV_DIMENSION_TEXTURE1D"
      [] d.variant = "Tex2D" -> "D3D12_RTV_DIMENSION_TEXTURE2D"
      [] d.variant = "Tex3D" -> "D3D12_RTV_DIMENSION_TEXTURE3D"
      [] d.variant = "ArrayTex1D" -> "D3D12_RTV_DIMENSION_TEXTURE1DARRAY"
      [] d.variant = "ArrayTex2D" -> "D3D12_RTV_DIMENSION_TEXTURE2DARRAY"
      [] d.variant = "Tex2DMs" -> "D3D12_RTV_DIMENSION_TEXTURE2DMS"
      [] d.variant = "Array2DMs" -> "D3D12_RTV_DIMENSION_TEXTURE2DMSARRAY"

\* The union D3D12_RENDER_TARGET_VIEW_DESC_0: the arm written and its fields.
ViewDimension_as_raw(d) ==
    CASE d.variant = "Buffer" ->
            [arm |-> "Buffer", FirstElement |-> d.first_element, NumElements |-> d.num_elements]
      [] d.variant = "Tex1D" ->
            [arm |-> "Texture1D", MipSlice |-> d.mip_slice]
      [] d.variant = "Tex2D" ->
            [arm |-> "Texture2D", MipSlice |-> d.mip_slice, PlaneSlice |-> d.plane_slice]
      [] d.variant = "Tex3D" ->
            [arm |-> "Texture3D", MipSlice |-> d.mip_slice,
             FirstWSlice |-> d.first_w_slice, WSize |-> d.w_size]
      [] d.variant = "ArrayTex1D" ->
            [arm |-> "Texture1DArray", MipSlice |-> d.mip_slice,
             FirstArraySlice |-> d.first_array_slice, ArraySize |-> d.array_size]
      [] d.variant = "ArrayTex2D" ->
            [arm |-> "Texture2DArray", MipSlice |-> d.mip_slice, PlaneSlice |-> d.plane_slice,
             FirstArraySlice |-> d.first_array_slice, ArraySize |-> d.array_size]
      [] d.variant = "Tex2DMs" ->
            [arm |-> "Texture2DMS", UnusedField_NothingToDefine |-> 0]
      [] d.variant = "Array2DMs" ->
            [arm |-> "Texture2DMSArray",
             FirstArraySlice |-> d.first_array_slice, ArraySize |-> d.array_size]

RenderTargetViewDescs ==
    {[format |-> f, dimension |-> d] : f \in Formats, d \in ViewDimensions}

RenderTargetViewDesc_as_raw(d) ==
    [Format |-> Format_as_raw(d.format),
     ViewDimension |-> ViewDimension_as_type_raw(d.dimension),
     Anonymous |-> ViewDimension_as_raw(d.dimension)]

(***************************************************************************)
(* conv.rs: root parameters and static samplers.                           *)
(***************************************************************************)
Register == 0..MaxRegister

\* A descriptor table borrows a slice of descriptor ranges; only its length
\* and identity matter to the conversion.
RangeSlices == {[k \in 1..n |-> [range |-> k]] : n \in 0..MaxRanges}

RootParameterTypes ==
    {[variant |-> "DescriptorTable", ranges |-> r] : r \in RangeSlices}
    \cup {[variant |-> "Constants", shader_register |-> a, register_space |-> b,
           num_32bit_values |-> c] : a \in Register, b \in Register, c \in Register}
    \cup {[variant |-> v, shader_register |-> a, register_space |-> b] :
            v \in {"Cbv", "Srv", "Uav"}, a \in Register, b \in Register}

\* A slip in the type-tag match: Srv given the tag of Uav.
RootParameterType_as_type_raw_srv_as_uav(t) ==
    CASE t.variant = "DescriptorTable" -> "D3D12_ROOT_PARAMETER_TYPE_DESCRIPTOR_TABLE"
      [] t.variant = "Constants" -> "D3D12_ROOT_PARAMETER_TYPE_32BIT_CONSTANTS"
      [] t.variant = "Cbv" -> "D3D12_ROOT_PARAMETER_TYPE_CBV"
      [] t.variant = "Srv" -> "D3D12_ROOT_PARAMETER_TYPE_UAV"
      [] t.variant = "Uav" -> "D3D12_ROOT_PARAMETER_TYPE_UAV"

RootParameterType_as_type_raw(t) ==
    CASE t.variant = "DescriptorTable" -> "D3D12_ROOT_PARAMETER_TYPE_DESCRIPTOR_TABLE"
      [] t.variant = "Constants" -> "D3D12_ROOT_PARAMETER_TYPE_32BIT_CONSTANTS"
      [] t.variant = "Cbv" -> "D3D12_ROOT_PARAMETER_TYPE_CBV"
      [] t.variant = "Srv" -> "D3D12_ROOT_PARAMETER_TYPE_SRV"
      [] t.variant = "Uav" -> "D3D12_ROOT_PARAMETER_TYPE_UAV"

\* The union D3D12_ROOT_PARAMETER_0: the arm written and its fields.
RootParameterType_as_raw(t) ==
    CASE t.variant = "Cbv" ->
            [arm |-> "Descriptor", ShaderRegister |-> t.shader_register,
             RegisterSpace |-> t.register_space]
      [] t.variant = "Srv" ->
            [arm |-> "Descriptor", ShaderRegister |-> t.shader_register,
             RegisterSpace |-> t.register_space]
      [] t.variant = "Uav" ->
            [arm |-> "Descriptor", ShaderRegister |-> t.shader_register,
             RegisterSpace |-> t.register_space]
      [] t.variant = "DescriptorTable" ->
            [arm |-> "DescriptorTable", NumDescriptorRanges |-> Len(t.ranges),
             pDescriptorRanges |-> t.ranges]
      [] t.variant = "Constants" ->
            [arm |-> "Constants", ShaderRegister |-> t.shader_register,
             RegisterSpace |-> t.register_space, Num32BitValues |-> t.num_32bit_values]

RootParameters ==
    {[type |-> t, visibility |-> v] : t \in RootParameterTypes, v \in ShaderVisibilities}

RootParameter_as_raw(p) ==
    [ParameterType |-> RootParameterType_as_type_raw(p.type),
     Anonymous |-> RootParameterType_as_raw(p.type),
     ShaderVisibility |-> ShaderVisibility_as_raw(p.visibility)]

\* Only the fields that tell two samplers apart are kept.
StaticSamplerDescs ==
    {[shader_register |-> a, register_space |-> 0, visibility |-> "All"] : a \in Register}

\* StaticSamplerDesc::as_raw is todo!(): it panics with "not yet implemented".
StaticSamplerDesc_as_raw(s) == Panic("not yet implemented")

(***************************************************************************)
(* SmallVec<[T; N]>: N elements inline, spilling to the heap on the push   *)
(* that exceeds the capacity (the elements are moved to the new storage).  *)
(***************************************************************************)
RECURSIVE NextPowerOfTwo(_, _)
NextPowerOfTwo(n, p) == IF p >= n THEN p ELSE NextPowerOfTwo(n, 2 * p)

SmallVecNew(n) == [cap |-> n, spilled |-> FALSE, items |-> <<>>]

\* A slip in the growth path: the last inline element is lost in the move.
SmallVecPush_lossy_spill(vec, x) ==
    IF Len(vec.items) = vec.cap
    THEN [cap |-> NextPowerOfTwo(vec.cap + 1, 1),
          spilled |-> TRUE,
          items |-> [i \in 1..Len(vec.items) |->
                        IF i < Len(vec.items) THEN vec.items[i] ELSE x]]
    ELSE [vec EXCEPT !.items = Append(@, x)]

SmallVecPush(vec, x) ==
    IF Len(vec.items) = vec.cap
    THEN [cap |-> NextPowerOfTwo(vec.cap + 1, 1),
          spilled |-> TRUE,
          items |-> [i \in 1..(Len(vec.items) + 1) |->
                        IF i <= Len(vec.items) THEN vec.items[i] ELSE x]]
    ELSE [vec EXCEPT !.items = Append(@, x)]

RECURSIVE SmallVecExtend(_, _)
SmallVecExtend(vec, xs) ==
    IF xs = <<>> THEN vec ELSE SmallVecExtend(SmallVecPush(vec, Head(xs)), Tail(xs))

\* iter().map(f).collect::<SmallVec<[_; n]>>() of already converted elements
SmallVecCollect(xs, n) == SmallVecExtend(SmallVecNew(n), xs)

as_slice(vec) == vec.items

\* A computation that panicked instead of yielding a value.
Diverges(x) == "kind" \in DOMAIN x /\ x.kind = "Panic"

(***************************************************************************)
(* device.rs: impl DeviceInterface for Device.  Each operation takes its   *)
(* inputs and the answer of the native call(s) it makes and yields what it *)
(* returns, the calls it made and the scratch arrays it built.             *)
(***************************************************************************)
NativeResults(iface) ==
    {Ok(Raw(iface, o)) : o \in NativeObjects} \cup {Err(c) : c \in FailureCodes}

Outcome(r, c, s) == [ret |-> r, calls |-> c, scratch |-> s]

create_command_allocator(type, res) ==
    LET call == [fn |-> "CreateCommandAllocator",
                 type |-> CommandListType_as_raw(type), result |-> res]
    IN IF res.kind = "Err"
       THEN Outcome(Err("Dummy"), <<call>>, <<>>)
       ELSE Outcome(Ok(New("CommandAllocator", res.value)), <<call>>, <<>>)

\* A variant that asks the native device a second time when it fails.
create_command_queue_retry(desc, res) ==
    LET call == [fn |-> "CreateCommandQueue",
                 desc |-> CommandQueueDesc_as_raw(desc), result |-> res]
    IN IF res.kind = "Err"
       THEN Outcome(Err("Dummy"), <<call, call>>, <<>>)
       ELSE Outcome(Ok(New("CommandQueue", res.value)), <<call>>, <<>>)

create_command_queue(desc, res) ==
    LET call == [fn |-> "CreateCommandQueue",
                 desc |-> CommandQueueDesc_as_raw(desc), result |-> res]
    IN IF res.kind = "Err"
       THEN Outcome(Err("Dummy"), <<call>>, <<>>)
       ELSE Outcome(Ok(New("CommandQueue", res.value)), <<call>>, <<>>)

\* A variant that wraps a clone of the raw interface and leaks the original.
create_fence_extra_ref(initial_value, flags, res) ==
    LET call == [fn |-> "CreateFence", initial_value |-> initial_value,
                 flags |-> FenceFlags_as_raw(flags), result |-> res]
    IN IF res.kind = "Err"
       THEN Outcome(Err("Dummy"), <<call>>, <<>>)
       ELSE Outcome(Ok(New("Fence", res.value)),
                    <<call, [fn |-> "AddRef", obj |-> res.value.obj]>>, <<>>)

create_fence(initial_value, flags, res) ==
    LET call == [fn |-> "CreateFence", initial_value |-> initial_value,
                 flags |-> FenceFlags_as_raw(flags), result |-> res]
    IN IF res.kind = "Err"
       THEN Outcome(Err("Dummy"), <<call>>, <<>>)
       ELSE Outcome(Ok(New("Fence", res.value)), <<call>>, <<>>)

create_descriptor_heap(desc, res) ==
    LET call == [fn |-> "CreateDescriptorHeap",
                 desc |-> DescriptorHeapDesc_as_raw(desc), result |-> res]
    IN IF res.kind = "Err"
       THEN Outcome(Err("Dummy"), <<call>>, <<>>)
       ELSE Outcome(Ok(New("DescriptorHeap", res.value)), <<call>>, <<>>)

create_render_target_view(resource, view_desc, handle) ==
    LET desc == IF view_desc.some
                THEN Some(RenderTargetViewDesc_as_raw(view_desc.v))
                ELSE None
        call == [fn |-> "CreateRenderTargetView", resource |-> as_raw_ref(resource),
                 desc |-> desc, handle |-> CpuDescriptorHandle_as_raw(handle)]
    IN Outcome(Return, <<call>>, <<>>)

create_command_list(nodemask, type, command_allocator, pso, res) ==
    LET call == [fn |-> "CreateCommandList", nodemask |-> nodemask,
                 type |-> CommandListType_as_raw(type),
                 allocator |-> as_raw_ref(command_allocator),
                 pso |-> as_raw_ref(pso), result |-> res]
    IN IF res.kind = "Err"
       THEN Outcome(Err("Dummy"), <<call>>, <<>>)
       ELSE Outcome(Ok(New("GraphicsCommandList", res.value)), <<call>>, <<>>)

\* ID3DBlob
Blobs == {[ptr |-> "blobA", bytes |-> <<7>>], [ptr |-> "blobB", bytes |-> <<7, 9>>]}
GetBufferPointer(b) == b.ptr
GetBufferSize(b) == Len(b.bytes)

\* What D3D12SerializeRootSignature answers: its HRESULT and the blob it
\* left in the out-parameter.
SerializeAnswers ==
    {[result |-> Err(c), out |-> None] : c \in FailureCodes}
    \cup {[result |-> Ok("()"), out |-> None]}
    \cup {[result |-> Ok("()"), out |-> Some(b)] : b \in Blobs}

\* A variant that goes on to CreateRootSignature after a failed
\* serialization whenever the out-parameter holds a blob, and sizes the
\* slice one byte short.
create_root_signature_unchecked(desc, version, nodemask, ser, res) ==
    LET parameters ==
            SmallVecCollect([i \in 1..Len(desc.parameters) |->
                                RootParameter_as_raw(desc.parameters[i])], InlineCap)
        sampler == SmallVecNew(InlineCap)
        raw == [NumParameters |-> Len(desc.parameters),
                pParameters |-> as_slice(parameters),
                NumStaticSamplers |-> Len(desc.samplers),
                pStaticSamplers |-> as_slice(sampler),
                Flags |-> RootSignatureFlags_as_raw(desc.flags)]
        serialize == [fn |-> "D3D12SerializeRootSignature", desc |-> raw,
                      version |-> RootSignatureVersion_as_raw(version),
                      result |-> ser.result, out |-> ser.out]
        create == [fn |-> "CreateRootSignature", nodemask |-> nodemask,
                   blob |-> [ptr |-> GetBufferPointer(ser.out.v),
                             len |-> GetBufferSize(ser.out.v) - 1],
                   result |-> res]
    IN IF ~ser.out.some
       THEN Outcome(Err("Dummy"), <<serialize>>, <<parameters, sampler>>)
       ELSE IF res.kind = "Err"
       THEN Outcome(Err("Dummy"), <<serialize, create>>, <<parameters, sampler>>)
       ELSE Outcome(Ok(New("RootSignature", res.value)),
                    <<serialize, create>>, <<parameters, sampler>>)

create_root_signature(desc, version, nodemask, ser, res) ==
    LET parameters ==
            SmallVecCollect([i \in 1..Len(desc.parameters) |->
                                RootParameter_as_raw(desc.parameters[i])], InlineCap)
        converted == [i \in 1..Len(desc.samplers) |->
                         StaticSamplerDesc_as_raw(desc.samplers[i])]
    IN IF \E i \in 1..Len(converted) : Diverges(converted[i])
       THEN Outcome(converted[CHOOSE i \in 1..Len(converted) :
                                  /\ Diverges(converted[i])
                                  /\ \A j \in 1..(i - 1) : ~Diverges(converted[j])],
                    <<>>, <<parameters>>)
       ELSE
       LET sampler == SmallVecCollect(converted, InlineCap)
           raw == [NumParameters |-> Len(desc.parameters),
                   pParameters |-> as_slice(parameters),
                   NumStaticSamplers |-> Len(desc.samplers),
                   pStaticSamplers |-> as_slice(sampler),
                   Flags |-> RootSignatureFlags_as_raw(desc.flags)]
           serialize == [fn |-> "D3D12SerializeRootSignature", desc |-> raw,
                         version |-> RootSignatureVersion_as_raw(version),
                         result |-> ser.result, out |-> ser.out]
           create == [fn |-> "CreateRootSignature", nodemask |-> nodemask,
                      blob |-> [ptr |-> GetBufferPointer(ser.out.v),
                                len |-> GetBufferSize(ser.out.v)],
                      result |-> res]
       IN IF ser.result.kind = "Err"
          THEN Outcome(Err("Dummy"), <<serialize>>, <<parameters, sampler>>)
          ELSE IF ~ser.out.some
          THEN Outcome(Panic("unwrap on None"),
                       <<serialize>>, <<parameters, sampler>>)
          ELSE IF res.kind = "Err"
          THEN Outcome(Err("Dummy"), <<serialize, create>>, <<parameters, sampler>>)
          ELSE Outcome(Ok(New("RootSignature", res.value)),
                       <<serialize, create>>, <<parameters, sampler>>)

\* DxError::from (error.rs): the demotion of a native error to the error
\* taxonomy of the specification; no native error is demoted to Dummy.
DxError_from(code) ==
    CASE code = "E_FAIL" -> [kind |-> "Fail", message |-> code]
      [] code = "E_OUTOFMEMORY" -> [kind |-> "Oom"]
      [] OTHER -> [kind |-> "Dxgi", message |-> code]

(***************************************************************************)
(* command_queue.rs: impl CommandQueueInterface for CommandQueue.          *)
(***************************************************************************)
\* l.as_raw().cast::<ID3D12CommandList>(): QueryInterface on the same object;
\* it fails for the objects in bad.
cast(raw, iface, bad) ==
    IF raw.obj \in bad THEN Err("E_NOINTERFACE") ELSE Ok(Raw(iface, raw.obj))

\* A slip in the collect: each list is put in front of those before it.
RECURSIVE CollectCommandLists_reversed(_, _, _)
CollectCommandLists_reversed(command_lists, bad, vec) ==
    IF command_lists = <<>>
    THEN [panic |-> FALSE, vec |-> vec]
    ELSE LET c == cast(as_raw(Head(command_lists)), "ID3D12CommandList", bad)
         IN IF c.kind = "Err"
            THEN [panic |-> TRUE, vec |-> vec]
            ELSE CollectCommandLists_reversed(
                     Tail(command_lists), bad,
                     [vec EXCEPT !.items = <<Some(c.value)>> \o @])

\* The map-and-collect of execute_command_lists: each list is cast, then
\* pushed; a failed cast panics at that element.
RECURSIVE CollectCommandLists(_, _, _)
CollectCommandLists(command_lists, bad, vec) ==
    IF command_lists = <<>>
    THEN [panic |-> FALSE, vec |-> vec]
    ELSE LET c == cast(as_raw(Head(command_lists)), "ID3D12CommandList", bad)
         IN IF c.kind = "Err"
            THEN [panic |-> TRUE, vec |-> vec]
            ELSE CollectCommandLists(Tail(command_lists), bad,
                                     SmallVecPush(vec, Some(c.value)))

\* A variant that returns early on an empty iterable.
execute_command_lists_skip_empty(command_lists, bad) ==
    LET c == CollectCommandLists(command_lists, bad, SmallVecNew(InlineCap))
    IN IF c.panic
       THEN Outcome(Panic("Can not cast command list raw into ID3D12CommandList"),
                    <<>>, <<c.vec>>)
       ELSE IF as_slice(c.vec) = <<>>
       THEN Outcome(Return, <<>>, <<c.vec>>)
       ELSE Outcome(Return,
                    <<[fn |-> "ExecuteCommandLists", lists |-> as_slice(c.vec)]>>,
                    <<c.vec>>)

\* A variant that gives up on the first list it cannot cast and submits
\* the lists before it.
execute_command_lists_submit_prefix(command_lists, bad) ==
    LET c == CollectCommandLists(command_lists, bad, SmallVecNew(InlineCap))
    IN Outcome(Return,
               <<[fn |-> "ExecuteCommandLists", lists |-> as_slice(c.vec)]>>,
               <<c.vec>>)

\* A variant that submits what does not fit the inline storage in a
\* second native call.
execute_command_lists_chunked(command_lists, bad) ==
    LET c == CollectCommandLists(command_lists, bad, SmallVecNew(InlineCap))
        n == Len(as_slice(c.vec))
    IN IF c.panic
       THEN Outcome(Panic("Can not cast command list raw into ID3D12CommandList"),
                    <<>>, <<c.vec>>)
       ELSE IF n <= InlineCap
       THEN Outcome(Return,
                    <<[fn |-> "ExecuteCommandLists", lists |-> as_slice(c.vec)]>>,
                    <<c.vec>>)
       ELSE Outcome(Return,
                    <<[fn |-> "ExecuteCommandLists",
                       lists |-> SubSeq(as_slice(c.vec), 1, InlineCap)],
                      [fn |-> "ExecuteCommandLists",
                       lists |-> SubSeq(as_slice(c.vec), InlineCap + 1, n)]>>,
                    <<c.vec>>)

execute_command_lists(command_lists, bad) ==
    LET c == CollectCommandLists(command_lists, bad, SmallVecNew(InlineCap))
    IN IF c.panic
       THEN Outcome(Panic("Can not cast command list raw into ID3D12CommandList"),
                    <<>>, <<c.vec>>)
       ELSE Outcome(Return,
                    <<[fn |-> "ExecuteCommandLists", lists |-> as_slice(c.vec)]>>,
                    <<c.vec>>)

\* A variant that hands the native error code on instead of Dummy.
signal_native_code(fence, value, res) ==
    LET call == [fn |-> "Signal", fence |-> as_raw_ref(fence), value |-> value,
                 result |-> res]
    IN IF res.kind = "Err"
       THEN Outcome(Err(res.err), <<call>>, <<>>)
       ELSE Outcome(Ok("()"), <<call>>, <<>>)

\* A variant that reports success without handing the signal to the queue.
signal_not_queued(fence, value, res) ==
    IF res.kind = "Err"
    THEN Outcome(Err("Dummy"),
                 <<[fn |-> "Signal", fence |-> as_raw_ref(fence), value |-> value,
                    result |-> res]>>, <<>>)
    ELSE Outcome(Ok("()"), <<>>, <<>>)

signal(fence, value, res) ==
    LET call == [fn |-> "Signal", fence |-> as_raw_ref(fence), value |-> value,
                 result |-> res]
    IN IF res.kind = "Err"
       THEN Outcome(Err("Dummy"), <<call>>, <<>>)
       ELSE Outcome(Ok("()"), <<call>>, <<>>)

\* TiledResourceCoordinate::to_raw and TileRegionSize::to_raw (declared
\* outside the files at hand): the native struct with the same fields.
TiledResourceCoordinates ==
    {[x |-> x, y |-> 0, z |-> 0, subresource |-> n] : x \in 0..MaxMask, n \in 0..MaxMask}

TiledResourceCoordinate_to_raw(c) ==
    [X |-> c.x, Y |-> c.y, Z |-> c.z, Subresource |-> c.subresource]

TileRegionSizes ==
    {[num_tiles |-> 1, use_box |-> b, width |-> 1, height |-> 1, depth |-> 1] :
        b \in BOOLEAN}

TileRegionSize_to_raw(r) ==
    [NumTiles |-> r.num_tiles, UseBox |-> IF r.use_box THEN 1 ELSE 0,
     Width |-> r.width, Height |-> r.height, Depth |-> r.depth]

copy_tile_mappings(dst_resource, dst_region_start_coordinate, src_resource, src_region_start_coordinate, region_size) ==
    LET call == [fn |-> "CopyTileMappings",
                 dst_resource |-> as_raw_ref(dst_resource),
                 dst_region_start_coordinate |->
                     TiledResourceCoordinate_to_raw(dst_region_start_coordinate),
                 src_resource |-> as_raw_ref(src_resource),
                 src_region_start_coordinate |->
                     TiledResourceCoordinate_to_raw(src_region_start_coordinate),
                 region_size |-> TileRegionSize_to_raw(region_size),
                 flags |-> "D3D12_TILE_MAPPING_FLAG_NONE"]
    IN Outcome(Return, <<call>>, <<>>)

\* What GetClockCalibration answers: its HRESULT and what it wrote to the
\* two out-parameters (on a failure it may have written one, both or none).
ClockAnswers ==
    {[result |-> r, gpu |-> g, cpu |-> c] :
        r \in {Ok("()")} \cup {Err(e) : e \in FailureCodes},
        g \in 0..MaxTicks, c \in 0..MaxTicks}

\* A variant that returns the counters in the order (cpu, gpu).
get_clock_calibration_swapped(ans) ==
    LET call == [fn |-> "GetClockCalibration", result |-> ans.result,
                 gpu |-> ans.gpu, cpu |-> ans.cpu]
    IN IF ans.result.kind = "Err"
       THEN Outcome(Err(DxError_from(ans.result.err)), <<call>>, <<>>)
       ELSE Outcome(Ok(<<ans.cpu, ans.gpu>>), <<call>>, <<>>)

get_clock_calibration(ans) ==
    LET call == [fn |-> "GetClockCalibration", result |-> ans.result,
                 gpu |-> ans.gpu, cpu |-> ans.cpu]
    IN IF ans.result.kind = "Err"
       THEN Outcome(Err(DxError_from(ans.result.err)), <<call>>, <<>>)
       ELSE Outcome(Ok(<<ans.gpu, ans.cpu>>), <<call>>, <<>>)

(***************************************************************************)
(* conv.rs: impl From<DXGI_ADAPTER_DESC1> for AdapterDesc.                 *)
(***************************************************************************)
\* The native descriptions: the UTF-16 name is well formed or holds an
\* unpaired surrogate; the memory sizes and the flags vary.
Utf16Names == {"wellformed", "unpaired"}

from_utf16_lossy(name) ==
    IF name = "wellformed" THEN "wellformed" ELSE "replaced"

NativeAdapterDescs ==
    {[Description |-> n, VendorId |-> 1, DeviceId |-> 2, SubSysId |-> 3,
      Revision |-> 4, DedicatedVideoMemory |-> v, DedicatedSystemMemory |-> d,
      SharedSystemMemory |-> sh, AdapterLuid |-> [LowPart |-> 5, HighPart |-> 6],
      Flags |-> f] :
        n \in Utf16Names, v \in 0..MaxMask, d \in 0..MaxMask, sh \in 0..MaxMask,
        f \in BitPatterns}

unwrap_or(option, default) == IF option.some THEN option.v ELSE default

\* A variant that unwraps the flags instead of falling back to the empty set.
AdapterDesc_from_unwrap(value) ==
    IF ~from_bits("AdapterFlags", value.Flags).some
    THEN Outcome(Panic("unwrap on None"), <<>>, <<>>)
    ELSE Outcome(Ok([description |-> from_utf16_lossy(value.Description),
                     vendor_id |-> value.VendorId,
                     device_id |-> value.DeviceId,
                     sub_sys_id |-> value.SubSysId,
                     revision |-> value.Revision,
                     dedicated_video_memory |-> value.DedicatedVideoMemory,
                     dedicated_system_memory |-> value.SharedSystemMemory,
                     shared_system_memory |-> value.SharedSystemMemory,
                     adapter_luid |-> [low_part |-> value.AdapterLuid.LowPart,
                                       high_part |-> value.AdapterLuid.HighPart],
                     flags |-> from_bits("AdapterFlags", value.Flags).v]),
                 <<>>, <<>>)

AdapterDesc_from(value) ==
    Outcome(Ok([description |-> from_utf16_lossy(value.Description),
                vendor_id |-> value.VendorId,
                device_id |-> value.DeviceId,
                sub_sys_id |-> value.SubSysId,
                revision |-> value.Revision,
                dedicated_video_memory |-> value.DedicatedVideoMemory,
                dedicated_system_memory |-> value.SharedSystemMemory,
                shared_system_memory |-> value.SharedSystemMemory,
                adapter_luid |-> [low_part |-> value.AdapterLuid.LowPart,
                                  high_part |-> value.AdapterLuid.HighPart],
                flags |-> unwrap_or(from_bits("AdapterFlags", value.Flags), empty)]),
            <<>>, <<>>)

(***************************************************************************)
(* entry.rs: Entry::create_factory / create_device / create_debug.         *)
(***************************************************************************)
\* The wrapper types an entry operation is instantiated with, and the raw
\* interface each of them wraps (F::Raw, D::Raw).
FactoryTypes == {"Factory4", "Factory6", "Factory7"}
DeviceTypes == {"Device"}
DebugTypes == {"Debug"}

RawOf(type) ==
    CASE type = "Factory4" -> "IDXGIFactory4"
      [] type = "Factory6" -> "IDXGIFactory6"
      [] type = "Factory7" -> "IDXGIFactory7"
      [] type = "Device" -> "ID3D12Device"
      [] type = "Debug" -> "ID3D12Debug"

FeatureLevels == {"Level11", "Level12"}

\* enum FeatureLevel (declared outside the files at hand)
FeatureLevelDiscriminant(l) ==
    CASE l = "Level11" -> "D3D_FEATURE_LEVEL_11_0"
      [] l = "Level12" -> "D3D_FEATURE_LEVEL_12_0"

FeatureLevel_as_raw(l) == [D3D_FEATURE_LEVEL |-> FeatureLevelDiscriminant(l)]

\* What a native call with an out-parameter answers: its HRESULT and what
\* it left in the out-parameter.
OutAnswers(iface) ==
    {[result |-> Err(c), out |-> None] : c \in FailureCodes}
    \cup {[result |-> Ok("()"), out |-> None]}
    \cup {[result |-> Ok("()"), out |-> Some(Raw(iface, o))] : o \in NativeObjects}

create_factory(F, flags, res) ==
    LET call == [fn |-> "CreateDXGIFactory2", flags |-> bits(flags),
                 iface |-> RawOf(F), result |-> res]
    IN IF res.kind = "Err"
       THEN Outcome(Err(DxError_from(res.err)), <<call>>, <<>>)
       ELSE Outcome(Ok(New(F, res.value)), <<call>>, <<>>)

\* A variant that hands the native device no adapter at all.
create_device_default_adapter(D, adapter, feature_level, ans) ==
    LET call == [fn |-> "D3D12CreateDevice", adapter |-> None,
                 feature_level |-> FeatureLevel_as_raw(feature_level),
                 iface |-> RawOf(D), result |-> ans.result, out |-> ans.out]
    IN IF ans.result.kind = "Err"
       THEN Outcome(Err(DxError_from(ans.result.err)), <<call>>, <<>>)
       ELSE IF ~ans.out.some
            THEN Outcome(Panic("unwrap on None"), <<call>>, <<>>)
            ELSE Outcome(Ok(New(D, ans.out.v)), <<call>>, <<>>)

create_device(D, adapter, feature_level, ans) ==
    LET call == [fn |-> "D3D12CreateDevice",
                 adapter |-> IF adapter.some THEN Some(as_raw_ref(adapter.v))
                                             ELSE None,
                 feature_level |-> FeatureLevel_as_raw(feature_level),
                 iface |-> RawOf(D), result |-> ans.result, out |-> ans.out]
    IN IF ans.result.kind = "Err"
       THEN Outcome(Err(DxError_from(ans.result.err)), <<call>>, <<>>)
       ELSE IF ~ans.out.some
            THEN Outcome(Panic("unwrap on None"), <<call>>, <<>>)
            ELSE Outcome(Ok(New(D, ans.out.v)), <<call>>, <<>>)

create_debug(D, ans) ==
    LET call == [fn |-> "D3D12GetDebugInterface", iface |-> RawOf(D),
                 result |-> ans.result, out |-> ans.out]
    IN IF ans.result.kind = "Err"
       THEN Outcome(Err(DxError_from(ans.result.err)), <<call>>, <<>>)
       ELSE IF ~ans.out.some
            THEN Outcome(Panic("unwrap on None"), <<call>>, <<>>)
            ELSE Outcome(Ok(New(D, ans.out.v)), <<call>>, <<>>)

(***************************************************************************)
(* utils.rs: ConstantBufferData<T>.  A type is its layout: its size and    *)
(* its alignment, a power of two that divides the size.                    *)
(***************************************************************************)
Aligns == {1, 4, 16, 256, 512}

\* The inner types: a few units long, or a few units past a multiple of
\* 64 units.
TypeLayouts ==
    {[size |-> k * a, align |-> a] : k \in 0..MaxUnits, a \in Aligns}
    \cup {[size |-> (64 + k) * a, align |-> a] : k \in 0..MaxUnits, a \in Aligns}

RoundUp(n, a) == ((n + a - 1) \div a) * a

\* The layout of a struct of one field with #[repr(align(n))]: the
\* alignment is raised to n, the size rounded up to the alignment.
ReprAlign(T, n) ==
    LET align == Max(n, T.align)
    IN [size |-> RoundUp(T.size, align), align |-> align]

\* A variant aligned for a 16-byte register instead.
ConstantBufferData_layout_16(T) == ReprAlign(T, 16)

ConstantBufferData_layout(T) == ReprAlign(T, ConstantBufferAlign)

\* The tuple struct and its Deref.
ConstantBufferData(x) == <<x>>
deref(w) == w[1]

(***************************************************************************)
(* utils.rs: create_default_buffer.  The calls it makes go to the device   *)
(* and to the command list; their answers are the environment's.           *)
(***************************************************************************)
ElemSizes == {1, 4}
DataSlices == {[len |-> n, elem_size |-> e] : n \in 0..MaxData, e \in ElemSizes}
\* A variant that takes the element count for the byte size.
size_of_val_len(data) == data.len

\* std::mem::size_of_val(data) of a slice
size_of_val(data) == data.len * data.elem_size

ResourceBarrier_transition(resource, before, after) ==
    [type |-> "Transition", resource |-> as_raw_ref(resource),
     before |-> before, after |-> after]

ResourceResults(o) == {Ok(New("Resource", Raw("ID3D12Resource", o))), Err("Oom")}

\* The calls of create_default_buffer.
CreateCall(heap, data, state, res) ==
    [fn |-> "create_committed_resource", heap |-> heap,
     width |-> size_of_val(data), state |-> state, result |-> res]

BarrierCall(resource, before, after) ==
    [fn |-> "resource_barrier",
     barriers |-> <<ResourceBarrier_transition(resource, before, after)>>]

UpdateCall(dest, intermediate, data, updated) ==
    [fn |-> "update_subresources_fixed", dest |-> as_raw_ref(dest),
     intermediate |-> as_raw_ref(intermediate), src |-> <<data>>, result |-> updated]

\* A variant that records the copy before the first barrier.
create_default_buffer_copy_first(data, def, upl, updated) ==
    LET create1 == CreateCall("default", data, "Common", def)
        create2 == CreateCall("upload", data, "GenericRead", upl)
        default_buffer == def.value
        upload_buffer == upl.value
        barrier1 == BarrierCall(default_buffer, "Common", "CopyDest")
        update == UpdateCall(default_buffer, upload_buffer, data, updated)
        barrier2 == BarrierCall(default_buffer, "CopyDest", "GenericRead")
    IN IF def.kind = "Err"
       THEN Outcome(Panic("unwrap on Err"), <<create1>>, <<>>)
       ELSE IF upl.kind = "Err"
       THEN Outcome(Panic("unwrap on Err"), <<create1, create2>>, <<>>)
       ELSE IF ~(updated > 0)
       THEN Outcome(Panic("assertion failed"), <<create1, create2, update>>, <<>>)
       ELSE Outcome(Ok(<<default_buffer, upload_buffer>>),
                    <<create1, create2, update, barrier1, barrier2>>, <<>>)

\* A variant without the assertion on the transferred byte count.
create_default_buffer_unchecked(data, def, upl, updated) ==
    LET create1 == CreateCall("default", data, "Common", def)
        create2 == CreateCall("upload", data, "GenericRead", upl)
        default_buffer == def.value
        upload_buffer == upl.value
        barrier1 == BarrierCall(default_buffer, "Common", "CopyDest")
        update == UpdateCall(default_buffer, upload_buffer, data, updated)
        barrier2 == BarrierCall(default_buffer, "CopyDest", "GenericRead")
    IN IF def.kind = "Err"
       THEN Outcome(Panic("unwrap on Err"), <<create1>>, <<>>)
       ELSE IF upl.kind = "Err"
       THEN Outcome(Panic("unwrap on Err"), <<create1, create2>>, <<>>)
       ELSE Outcome(Ok(<<default_buffer, upload_buffer>>),
                    <<create1, create2, barrier1, update, barrier2>>, <<>>)

create_default_buffer(data, def, upl, updated) ==
    LET create1 == CreateCall("default", data, "Common", def)
        create2 == CreateCall("upload", data, "GenericRead", upl)
        default_buffer == def.value
        upload_buffer == upl.value
        barrier1 == BarrierCall(default_buffer, "Common", "CopyDest")
        update == UpdateCall(default_buffer, upload_buffer, data, updated)
        barrier2 == BarrierCall(default_buffer, "CopyDest", "GenericRead")
    IN IF def.kind = "Err"
       THEN Outcome(Panic("unwrap on Err"), <<create1>>, <<>>)
       ELSE IF upl.kind = "Err"
       THEN Outcome(Panic("unwrap on Err"), <<create1, create2>>, <<>>)
       ELSE IF ~(updated > 0)
       THEN Outcome(Panic("assertion failed"),
                    <<create1, create2, barrier1, update>>, <<>>)
       ELSE Outcome(Ok(<<default_buffer, upload_buffer>>),
                    <<create1, create2, barrier1, update, barrier2>>, <<>>)

(***************************************************************************)
(* utils.rs: load_binary.  The file system and the blob allocator are the  *)
(* environment: io tells whether the open, the seek to the end, the        *)
(* rewind of the reader and the allocation succeed, and what the one read  *)
(* answers.                                                                *)
(***************************************************************************)
Bytes == 0..1
Uninit == 0 - 1     \* a byte of the blob nothing was written to

Files == UNION {[1..n -> Bytes] : n \in 0..MaxFile}

\* Read::read: an error, or the most bytes the reader hands over at once.
ReadAnswers ==
    {[ok |-> FALSE, n |-> 0]} \cup {[ok |-> TRUE, n |-> k] : k \in 1..(MaxFile + 1)}

IoAnswers ==
    [open : BOOLEAN, seek_end : BOOLEAN, rewind : BOOLEAN, blob : BOOLEAN,
     read : ReadAnswers]

Min(a, b) == IF a < b THEN a ELSE b

\* The bytes one read call transfers into a buffer of len bytes from a
\* file of size bytes at position pos: none at the end of the file, into
\* an empty buffer or on an error, else at least one and no more than fit.
Transferred(answer, len, size, pos) ==
    IF ~answer.ok THEN 0 ELSE Min(answer.n, Min(len, size - pos))

OpenCall(ok) == [fn |-> "File::open", result |-> IF ok THEN Ok("file") ELSE Err("io")]
SeekCall(on, to, res) == [fn |-> "seek", on |-> on, to |-> to, result |-> res]
CreateBlobCall(size, ok) ==
    [fn |-> "Blob::create_blob", size |-> size,
     result |-> IF ok THEN Ok("blob") ELSE Err("Dummy")]
ReadCall(len, n, ok) ==
    [fn |-> "read", len |-> len, result |-> IF ok THEN Ok(n) ELSE Err("io")]

\* The blob after n bytes of the file were read into it.
BlobWith(size, file, pos, n) ==
    [size |-> size,
     bytes |-> [i \in 1..size |-> IF i <= n THEN file[pos + i] ELSE Uninit]]

\* A variant that insists on the read having transferred something.
load_binary_nonzero_read(file, io) ==
    LET open == OpenCall(io.open)
        seek0 == SeekCall("file", "Start(0)", Ok(0))
        size == Len(file)
        seek_end == SeekCall("file", "End(0)",
                             IF io.seek_end THEN Ok(size) ELSE Err("io"))
        pos == IF io.rewind THEN 0 ELSE size
        rewind == SeekCall("reader", "Start(0)",
                           IF io.rewind THEN Ok(0) ELSE Err("io"))
        create == CreateBlobCall(size, io.blob)
        n == Transferred(io.read, size, size, pos)
        read == ReadCall(size, n, io.read.ok)
    IN IF ~io.open
       THEN Outcome(Panic("unwrap on Err"), <<open>>, <<>>)
       ELSE IF ~io.seek_end
       THEN Outcome(Panic("unwrap on Err"), <<open, seek0, seek_end>>, <<>>)
       ELSE IF ~io.blob
       THEN Outcome(Panic("unwrap on Err"),
                    <<open, seek0, seek_end, rewind, create>>, <<>>)
       ELSE IF ~(n > 0)
       THEN Outcome(Panic("assertion failed"),
                    <<open, seek0, seek_end, rewind, create, read>>, <<>>)
       ELSE Outcome(Ok(BlobWith(size, file, pos, n)),
                    <<open, seek0, seek_end, rewind, create, read>>, <<>>)

\* A variant that reads again when the first read left the buffer short.
load_binary_read_again(file, io) ==
    LET open == OpenCall(io.open)
        seek0 == SeekCall("file", "Start(0)", Ok(0))
        size == Len(file)
        seek_end == SeekCall("file", "End(0)",
                             IF io.seek_end THEN Ok(size) ELSE Err("io"))
        pos == IF io.rewind THEN 0 ELSE size
        rewind == SeekCall("reader", "Start(0)",
                           IF io.rewind THEN Ok(0) ELSE Err("io"))
        create == CreateBlobCall(size, io.blob)
        n == Transferred(io.read, size, size, pos)
        read == ReadCall(size, n, io.read.ok)
        more == Transferred(io.read, size - n, size, pos + n)
        again == ReadCall(size - n, more, io.read.ok)
    IN IF ~io.open
       THEN Outcome(Panic("unwrap on Err"), <<open>>, <<>>)
       ELSE IF ~io.seek_end
       THEN Outcome(Panic("unwrap on Err"), <<open, seek0, seek_end>>, <<>>)
       ELSE IF ~io.blob
       THEN Outcome(Panic("unwrap on Err"),
                    <<open, seek0, seek_end, rewind, create>>, <<>>)
       ELSE IF n < size
       THEN Outcome(Ok(BlobWith(size, file, pos, n + more)),
                    <<open, seek0, seek_end, rewind, create, read, again>>, <<>>)
       ELSE Outcome(Ok(BlobWith(size, file, pos, n)),
                    <<open, seek0, seek_end, rewind, create, read>>, <<>>)

load_binary(file, io) ==
    LET open == OpenCall(io.open)
        seek0 == SeekCall("file", "Start(0)", Ok(0))
        size == Len(file)
        seek_end == SeekCall("file", "End(0)",
                             IF io.seek_end THEN Ok(size) ELSE Err("io"))
        pos == IF io.rewind THEN 0 ELSE size
        rewind == SeekCall("reader", "Start(0)",
                           IF io.rewind THEN Ok(0) ELSE Err("io"))
        create == CreateBlobCall(size, io.blob)
        n == Transferred(io.read, size, size, pos)
        read == ReadCall(size, n, io.read.ok)
    IN IF ~io.open
       THEN Outcome(Panic("unwrap on Err"), <<open>>, <<>>)
       ELSE IF ~io.seek_end
       THEN Outcome(Panic("unwrap on Err"), <<open, seek0, seek_end>>, <<>>)
       ELSE IF ~io.blob
       THEN Outcome(Panic("unwrap on Err"),
                    <<open, seek0, seek_end, rewind, create>>, <<>>)
       ELSE Outcome(Ok(BlobWith(size, file, pos, n)),
                    <<open, seek0, seek_end, rewind, create, read>>, <<>>)

(***************************************************************************)
(* Scratch storage.  A scratch array lives in storage of its own: the      *)
(* inline buffer of the SmallVec in the frame of the function that built   *)
(* it, or its heap block once it spilled.  Either is gone when the         *)
(* SmallVec is dropped.  A raw pointer into the storage says which storage *)
(* it points into; it does not keep it alive.                              *)
(***************************************************************************)
\* The storage of a SmallVec that was just collected.
storage_of(vec) == [state |-> "live", items |-> as_slice(vec)]

\* drop: the storage is freed; what it held is there until it is reused.
drop_storage(s) == [s EXCEPT !.state = "freed"]

\* vec.as_ptr() of the SmallVec held in storage number i
as_ptr(i) == [storage |-> i]

Garbage == [garbage |-> TRUE]

\* What a native call can find when it reads n elements through a pointer
\* into storage s.  Reading freed storage is undefined behaviour: the call
\* finds what was left there, or what the next owner of the memory wrote.
ReadThrough(s, n) ==
    IF n = 0 THEN {<<>>}
    ELSE IF s.state = "live" THEN {SubSeq(s.items, 1, n)}
    ELSE {SubSeq(s.items, 1, n), [i \in 1..n |-> Garbage]}

(***************************************************************************)
(* features.rs: impl FeatureObject for FeatureLevels.                      *)
(***************************************************************************)
\* into_raw: the levels are collected into the local raw, the raw struct
\* takes raw.as_ptr(), and raw is dropped when into_raw returns.
FeatureLevels_into_raw(input) ==
    LET raw == SmallVecCollect(
                   [i \in 1..Len(input.feature_levels_requested) |->
                       FeatureLevel_as_raw(input.feature_levels_requested[i])],
                   FeatureLevelsInlineCap)
    IN [ret |-> [NumFeatureLevels |-> Len(as_slice(raw)),
                 pFeatureLevelsRequested |-> as_ptr(1),
                 MaxSupportedFeatureLevel |-> 0],
        scratch |-> <<raw>>,
        mem |-> <<drop_storage(storage_of(raw))>>]

\* From<D3D_FEATURE_LEVEL> for FeatureLevel (declared outside the files at
\* hand): the variant declared with the native constant.
FeatureLevel_from(raw) ==
    CHOOSE l \in FeatureLevels : FeatureLevel_as_raw(l) = raw

FeatureLevels_from_raw(raw) ==
    [max_supported_feature_level |-> FeatureLevel_from(raw.MaxSupportedFeatureLevel)]

(***************************************************************************)
(* The client: it runs one wrapper operation after another, with inputs    *)
(* of its choice, until one of them panics.  Between two operations it is  *)
(* idle; Finish is the client letting go of what the last one returned.    *)
(***************************************************************************)
Handles(type, iface) == {New(type, Raw(iface, o)) : o \in NativeObjects}

CommandLists == Handles("GraphicsCommandList", "ID3D12GraphicsCommandList")

\* The iterables handed to execute_command_lists: every sequence of up to
\* MaxBase command lists, and its periodic repetitions up to MaxLists.
BaseSeqs == UNION {[1..n -> CommandLists] : n \in 1..MaxBase}
Cycle(base, n) == [i \in 1..n |-> base[((i - 1) % Len(base)) + 1]]
CommandListSeqs == {Cycle(b, n) : b \in BaseSeqs, n \in 0..MaxLists}

\* The parameter slices of a root signature: none, any one parameter, or
\* any parameter followed by one of a few second parameters.
SecondParameters ==
    {p \in RootParameters :
        /\ p.visibility = "All"
        /\ IF p.type.variant = "DescriptorTable"
           THEN Len(p.type.ranges) = 1
           ELSE /\ p.type.variant = "Cbv"
                /\ p.type.shader_register = 0
                /\ p.type.register_space = MaxRegister}

ParameterSlices ==
    {<<>>} \cup {<<p>> : p \in RootParameters}
           \cup {<<p, q>> : p \in RootParameters, q \in SecondParameters}

SamplerSlices ==
    {<<>>} \cup {[i \in 1..n |-> s] : n \in 1..MaxSamplers, s \in StaticSamplerDescs}

RootSignatureDescs ==
    {[parameters |-> p, samplers |-> s, flags |-> f] :
        p \in ParameterSlices, s \in SamplerSlices, f \in FlagSets}

(***************************************************************************)
(* Ownership.  A native object is reference counted.  A native creating    *)
(* call that succeeds hands its caller one reference; new(raw) moves that  *)
(* reference into the wrapper; whatever an operation was handed and does   *)
(* not return is dropped, hence released, when it returns or unwinds; the  *)
(* drop of a wrapper releases the reference it holds.                      *)
(***************************************************************************)
ResultCreators ==
    {"CreateCommandAllocator", "CreateCommandQueue", "CreateFence",
     "CreateDescriptorHeap", "CreateCommandList", "CreateRootSignature",
     "CreateDXGIFactory2"}
OutCreators == {"D3D12CreateDevice", "D3D12GetDebugInterface"}

\* The native objects a call handed to its caller, one reference each.
HandedOutBy(c) ==
    IF c.fn \in ResultCreators /\ c.result.kind = "Ok" THEN {c.result.value.obj}
    ELSE IF c.fn \in OutCreators /\ c.result.kind = "Ok" /\ c.out.some
         THEN {c.out.v.obj}
    ELSE IF c.fn = "create_committed_resource" /\ c.result.kind = "Ok"
         THEN {c.result.value.raw.obj}
    ELSE {}

HandedOut(log) ==
    [o \in NativeObjects |->
        Cardinality({i \in DOMAIN log : o \in HandedOutBy(log[i])})]

\* The explicit IUnknown calls of a log: a clone of a raw interface is an
\* AddRef, the drop of one a Release.
CountOf(log, fn) ==
    [o \in NativeObjects |->
        Cardinality({i \in DOMAIN log : log[i].fn = fn /\ log[i].obj = o})]

HandleOps ==
    {"create_command_allocator", "create_command_queue", "create_fence",
     "create_descriptor_heap", "create_command_list", "create_root_signature",
     "create_factory", "create_device", "create_debug"}

\* The wrappers the value an operation returned holds, per native object.
Owned(name, r) ==
    [o \in NativeObjects |->
        IF r.kind # "Ok" THEN 0
        ELSE IF name \in HandleOps THEN (IF r.value.raw.obj = o THEN 1 ELSE 0)
        ELSE IF name = "create_default_buffer"
             THEN Cardinality({i \in 1..2 : r.value[i].raw.obj = o})
        ELSE 0]

\* The reference counts after an operation: what the native layer handed
\* out and what was cloned, less what was released and the locals dropped.
RefsAfter(r, name, out) ==
    [o \in NativeObjects |->
        r[o] + HandedOut(out.calls)[o] + CountOf(out.calls, "AddRef")[o]
             - CountOf(out.calls, "Release")[o]
             - Max(0, HandedOut(out.calls)[o] - Owned(name, out.ret)[o])]

Total(f) == f["objA"] + f["objB"]

Idle == op = "idle"

\* The client runs an operation: what it returned and the calls it made
\* are on record, and the reference counts are what the calls left.
Run(name, input, out) ==
    /\ op' = name
    /\ arg' = input
    /\ calls' = out.calls
    /\ scratch' = out.scratch
    /\ ret' = out.ret
    /\ refs' = RefsAfter(refs, name, out)
    /\ live' = live
    /\ mem' = mem

\* An operation run against a native layer that only answers.
Do(name, input, out) ==
    /\ Run(name, input, out)
    /\ UNCHANGED gpu

Init ==
    /\ op = "idle"
    /\ arg = None
    /\ calls = <<>>
    /\ scratch = <<>>
    /\ ret = Return
    /\ refs = [o \in NativeObjects |-> 0]
    /\ live = [o \in NativeObjects |-> 0]
    /\ queue = <<>>
    /\ fences = [o \in NativeObjects |-> 0]
    /\ accepted = 0
    /\ completed = 0
    /\ mem = <<>>

CreateCommandAllocator ==
    /\ Idle
    /\ \E t \in CommandListTypes, r \in NativeResults("ID3D12CommandAllocator") :
          Do("create_command_allocator", [type |-> t], create_command_allocator(t, r))

CreateCommandQueue ==
    /\ Idle
    /\ \E d \in CommandQueueDescs, r \in NativeResults("ID3D12CommandQueue") :
          Do("create_command_queue", [desc |-> d], create_command_queue(d, r))

CreateFence ==
    /\ Idle
    /\ \E v \in 0..MaxMask, f \in FlagSets, r \in NativeResults("ID3D12Fence") :
          Do("create_fence", [initial_value |-> v, flags |-> f], create_fence(v, f, r))

CreateDescriptorHeap ==
    /\ Idle
    /\ \E d \in DescriptorHeapDescs, r \in NativeResults("ID3D12DescriptorHeap") :
          Do("create_descriptor_heap", [desc |-> d], create_descriptor_heap(d, r))

CreateRenderTargetView ==
    /\ Idle
    /\ \E res \in Handles("Resource", "ID3D12Resource"),
          d \in {None} \cup {Some(x) : x \in RenderTargetViewDescs},
          h \in CpuDescriptorHandles :
          Do("create_render_target_view", [resource |-> res, view_desc |-> d, handle |-> h],
             create_render_target_view(res, d, h))

CreateCommandList ==
    /\ Idle
    /\ \E m \in 0..MaxMask, t \in CommandListTypes,
          ca \in Handles("CommandAllocator", "ID3D12CommandAllocator"),
          pso \in Handles("PipelineState", "ID3D12PipelineState"),
          r \in NativeResults("ID3D12GraphicsCommandList") :
          Do("create_command_list",
             [nodemask |-> m, type |-> t, command_allocator |-> ca, pso |-> pso],
             create_command_list(m, t, ca, pso, r))

CreateRootSignature ==
    /\ Idle
    /\ \E d \in RootSignatureDescs, v \in RootSignatureVersions, m \in 0..MaxMask,
          ser \in SerializeAnswers, r \in NativeResults("ID3D12RootSignature") :
          Do("create_root_signature", [desc |-> d, version |-> v, nodemask |-> m],
             create_root_signature(d, v, m, ser, r))

ExecuteCommandLists ==
    /\ Idle
    /\ \E ls \in CommandListSeqs, bad \in SUBSET NativeObjects :
          Do("execute_command_lists", [command_lists |-> ls, uncastable |-> bad],
             execute_command_lists(ls, bad))

Signal ==
    /\ Idle
    /\ \E f \in Handles("Fence", "ID3D12Fence"), v \in 0..MaxMask,
          r \in {Ok("()")} \cup {Err(c) : c \in FailureCodes} :
          Do("signal", [fence |-> f, value |-> v], signal(f, v, r))

GetClockCalibration ==
    /\ Idle
    /\ \E ans \in ClockAnswers :
          Do("get_clock_calibration", None, get_clock_calibration(ans))

CopyTileMappings ==
    /\ Idle
    /\ \E dst \in Handles("Resource", "ID3D12Resource"),
          src \in Handles("Resource", "ID3D12Resource"),
          dc \in TiledResourceCoordinates, sc \in TiledResourceCoordinates,
          size \in TileRegionSizes :
          Do("copy_tile_mappings",
             [dst_resource |-> dst, dst_region_start_coordinate |-> dc,
              src_resource |-> src, src_region_start_coordinate |-> sc,
              region_size |-> size],
             copy_tile_mappings(dst, dc, src, sc, size))

CreateDefaultBuffer ==
    /\ Idle
    /\ \E d \in DataSlices, o1 \in NativeObjects, o2 \in NativeObjects :
          /\ o1 # o2
          /\ \E def \in ResourceResults(o1), upl \in ResourceResults(o2),
                n \in {0, size_of_val(d)} :
                Do("create_default_buffer", [data |-> d],
                   create_default_buffer(d, def, upl, n))

CreateFactory ==
    /\ Idle
    /\ \E F \in FactoryTypes, f \in FlagSets :
          \E r \in NativeResults(RawOf(F)) :
             Do("create_factory", [type |-> F, flags |-> f], create_factory(F, f, r))

CreateDevice ==
    /\ Idle
    /\ \E D \in DeviceTypes, l \in FeatureLevels,
          a \in {None} \cup {Some(h) : h \in Handles("Adapter3", "IDXGIAdapter3")} :
          \E ans \in OutAnswers(RawOf(D)) :
             Do("create_device", [type |-> D, adapter |-> a, feature_level |-> l],
                create_device(D, a, l, ans))

CreateDebug ==
    /\ Idle
    /\ \E D \in DebugTypes :
          \E ans \in OutAnswers(RawOf(D)) :
             Do("create_debug", [type |-> D], create_debug(D, ans))

LoadBinary ==
    /\ Idle
    /\ \E file \in Files, io \in IoAnswers :
          Do("load_binary", [file |-> file], load_binary(file, io))

\* The client lets go of what the last operation returned: a wrapper in
\* it is dropped, which releases its reference.
Finish ==
    /\ ~Idle
    /\ ret.kind \notin {"Panic", "Running"}
    /\ op' = "idle"
    /\ arg' = None
    /\ calls' = <<>>
    /\ scratch' = <<>>
    /\ ret' = Return
    /\ refs' = [o \in NativeObjects |-> refs[o] - Owned(op, ret)[o]]
    /\ live' = live
    /\ mem' = <<>>
    /\ UNCHANGED gpu

\* The client keeps the wrappers the last operation returned.
Keep ==
    /\ ~Idle
    /\ ret.kind = "Ok"
    /\ Total(Owned(op, ret)) > 0
    /\ Total(live) + Total(Owned(op, ret)) <= MaxLive
    /\ op' = "idle"
    /\ arg' = None
    /\ calls' = <<>>
    /\ scratch' = <<>>
    /\ ret' = Return
    /\ refs' = refs
    /\ live' = [o \in NativeObjects |-> live[o] + Owned(op, ret)[o]]
    /\ UNCHANGED <<gpu, mem>>

\* The client drops a wrapper it holds.
DropHandle ==
    /\ Idle
    /\ \E o \in NativeObjects :
          /\ live[o] > 0
          /\ live' = [live EXCEPT ![o] = @ - 1]
          /\ refs' = [refs EXCEPT ![o] = @ - 1]
    /\ UNCHANGED <<op, arg, calls, scratch, ret>>
    /\ UNCHANGED <<gpu, mem>>

\* The creating operations of the device and the entry, on default inputs.
HandleCreations ==
    {[name |-> "create_command_allocator", input |-> [type |-> "Direct"],
      out |-> create_command_allocator("Direct", r)] :
        r \in NativeResults("ID3D12CommandAllocator")}
    \cup {[name |-> "create_command_queue", input |-> [desc |-> d],
           out |-> create_command_queue(d, r)] :
        d \in {x \in CommandQueueDescs : x.type = "Direct" /\ x.priority = 0
                                          /\ bits(x.flags) = 0 /\ x.node_mask = 0},
        r \in NativeResults("ID3D12CommandQueue")}
    \cup {[name |-> "create_fence", input |-> [initial_value |-> 0, flags |-> f],
           out |-> create_fence(0, f, r)] :
        f \in {x \in FlagSets : bits(x) = 0}, r \in NativeResults("ID3D12Fence")}
    \cup {[name |-> "create_descriptor_heap", input |-> [desc |-> d],
           out |-> create_descriptor_heap(d, r)] :
        d \in {x \in DescriptorHeapDescs : x.type = "Rtv" /\ x.num = 1
                                            /\ bits(x.flags) = 0 /\ x.node_mask = 0},
        r \in NativeResults("ID3D12DescriptorHeap")}
    \cup {[name |-> "create_factory", input |-> [type |-> "Factory4", flags |-> f],
           out |-> create_factory("Factory4", f, r)] :
        f \in {x \in FlagSets : bits(x) = 0}, r \in NativeResults(RawOf("Factory4"))}

CreateHandle ==
    /\ Idle
    /\ \E c \in HandleCreations : Do(c.name, c.input, c.out)

HandleNext ==
    \/ CreateHandle
    \/ Keep
    \/ DropHandle
    \/ Finish

HandleSpec == Init /\ [][HandleNext]_vars

(***************************************************************************)
(* The command queue and the GPU behind it.  The native queue takes what   *)
(* ExecuteCommandLists and Signal hand it in the order of the calls and    *)
(* the GPU works it off in that order: it completes a batch of command     *)
(* lists, or writes the value of a signal to its fence.                    *)
(***************************************************************************)
\* The work a native call leaves on the queue, if any.  n is the number of
\* batches the queue accepted before the call.
QueuedBy(c, n) ==
    IF c.fn = "ExecuteCommandLists"
    THEN <<[kind |-> "lists", count |-> Len(c.lists), fence |-> "none",
            value |-> 0, after |-> n]>>
    ELSE IF c.fn = "Signal" /\ c.result.kind = "Ok"
    THEN <<[kind |-> "signal", count |-> 0, fence |-> c.fence.obj,
            value |-> c.value, after |-> n]>>
    ELSE <<>>

RECURSIVE Queued(_, _)
Queued(log, n) ==
    IF log = <<>> THEN <<>>
    ELSE QueuedBy(Head(log), n)
         \o Queued(Tail(log),
                   IF Head(log).fn = "ExecuteCommandLists" THEN n + 1 ELSE n)

BatchesIn(log) == Cardinality({i \in DOMAIN log : log[i].fn = "ExecuteCommandLists"})

\* An operation run against the command queue.
DoOnQueue(name, input, out) ==
    /\ Run(name, input, out)
    /\ queue' = queue \o Queued(out.calls, accepted)
    /\ accepted' = accepted + BatchesIn(out.calls)
    /\ UNCHANGED <<fences, completed>>

QueueListSeqs == {<<>>} \cup {<<l>> : l \in CommandLists}

Submit ==
    /\ Idle
    /\ Len(queue) < MaxQueue
    /\ accepted < MaxSubmit
    /\ \E ls \in QueueListSeqs :
          DoOnQueue("execute_command_lists", [command_lists |-> ls, uncastable |-> {}],
                    execute_command_lists(ls, {}))

SignalFence ==
    /\ Idle
    /\ Len(queue) < MaxQueue
    /\ \E f \in Handles("Fence", "ID3D12Fence"), v \in 1..MaxValue,
          r \in {Ok("()")} \cup {Err(c) : c \in FailureCodes} :
          DoOnQueue("signal", [fence |-> f, value |-> v], signal(f, v, r))

\* The GPU does the work at the head of the queue.
GpuStep ==
    /\ queue # <<>>
    /\ queue' = Tail(queue)
    /\ IF Head(queue).kind = "lists"
       THEN /\ completed' = completed + 1
            /\ fences' = fences
       ELSE /\ completed' = completed
            /\ fences' = [fences EXCEPT ![Head(queue).fence] = Head(queue).value]
    /\ UNCHANGED <<op, arg, calls, scratch, ret, refs, live, accepted, mem>>

QueueNext ==
    \/ Submit
    \/ SignalFence
    \/ GpuStep
    \/ Finish

QueueSpec == Init /\ [][QueueNext]_vars

\* The GPU makes progress: work on the queue is eventually done.
FairQueueSpec == QueueSpec /\ WF_vars(GpuStep)

(***************************************************************************)
(* The conversions on their own: the client converts a value of its choice *)
(* and looks at the result.                                                *)
(***************************************************************************)
ReprSamples == -1..MaxRepr

Converted(v) == Outcome(Ok(v), <<>>, <<>>)

\* A variant to its native value and back.
EnumRoundTrip ==
    /\ Idle
    /\ \E E \in EnumNames :
          \E v \in Variants(E) :
             Do("enum_round_trip", [enum |-> E, variant |-> v],
                Converted([raw |-> Repr(E, v), back |-> from_repr(E, Repr(E, v))]))

\* A native integer, known or not, to a variant.
EnumFromRepr ==
    /\ Idle
    /\ \E E \in EnumNames, n \in ReprSamples :
          Do("from_repr", [enum |-> E, repr |-> n], Converted(from_repr(E, n)))

EnumAsRaw ==
    /\ Idle
    /\ \E E \in EnumsWithAsRaw :
          \E v \in Variants(E) :
             Do("enum_as_raw", [enum |-> E, variant |-> v], Converted(Enum_as_raw(E, v)))

\* A set of flags to its bits and back.
FlagsRoundTrip ==
    /\ Idle
    /\ \E F \in FlagTypes :
          \E S \in SUBSET FlagsOf(F) :
             Do("flags_round_trip", [type |-> F, subset |-> S],
                Converted([set |-> FlagSetOf(F, S),
                           back |-> from_bits(F, bits(FlagSetOf(F, S)))]))

\* A native bit pattern, known or not, to a flag set.
FlagsFromBits ==
    /\ Idle
    /\ \E F \in FlagTypes, n \in BitPatterns :
          Do("from_bits", [type |-> F, bits |-> n], Converted(from_bits(F, n)))

\* Two flag sets combined.
FlagsCombine ==
    /\ Idle
    /\ \E F \in FlagTypes :
          \E S \in SUBSET FlagsOf(F), T \in SUBSET FlagsOf(F) :
             Do("flags_combine", [type |-> F, left |-> S, right |-> T],
                Converted([union |-> union(FlagSetOf(F, S), FlagSetOf(F, T)),
                           intersection |->
                               intersection(FlagSetOf(F, S), FlagSetOf(F, T)),
                           difference |->
                               difference(FlagSetOf(F, S), FlagSetOf(F, T))]))

\* The conversions that write a flag set to a native flags field.
FlagsAsRaw ==
    /\ Idle
    /\ \E f \in FlagSets :
          \/ \E d \in CommandQueueDescs :
                /\ d.flags = f
                /\ d.type = "Direct" /\ d.priority = 0 /\ d.node_mask = 0
                /\ Do("flags_as_raw", [of |-> "CommandQueueDesc", flags |-> f],
                      Converted(CommandQueueDesc_as_raw(d).Flags.D3D12_COMMAND_QUEUE_FLAGS))
          \/ Do("flags_as_raw", [of |-> "FenceFlags", flags |-> f],
                Converted(FenceFlags_as_raw(f).D3D12_FENCE_FLAGS))
          \/ Do("flags_as_raw", [of |-> "DescriptorHeapFlags", flags |-> f],
                Converted(DescriptorHeapFlags_as_raw(f).D3D12_DESCRIPTOR_HEAP_FLAGS))
          \/ Do("flags_as_raw", [of |-> "RootSignatureFlags", flags |-> f],
                Converted(RootSignatureFlags_as_raw(f).D3D12_ROOT_SIGNATURE_FLAGS))

\* A native adapter description converted.
AdapterDescFrom ==
    /\ Idle
    /\ \E value \in NativeAdapterDescs :
          Do("adapter_desc_from", value, AdapterDesc_from(value))

\* A value wrapped for a constant buffer.
WrapConstantBufferData ==
    /\ Idle
    /\ \E T \in TypeLayouts, x \in 0..MaxMask :
          Do("constant_buffer_data", [type |-> T, value |-> x],
             Converted([layout |-> ConstantBufferData_layout(T),
                        deref |-> deref(ConstantBufferData(x))]))

\* h.offset(a).offset(b) on a descriptor handle.
OffsetHandle ==
    /\ Idle
    /\ \E type \in {"CpuDescriptorHandle", "GpuDescriptorHandle"},
          p \in Usizes, a \in Usizes, b \in Usizes, overflow_checks \in BOOLEAN :
          LET h == [ptr |-> p]
              first == DescriptorHandle_offset(type, h, a, overflow_checks)
              second == IF first.kind = "Panic" THEN first
                        ELSE DescriptorHandle_offset(type, first.value, b,
                                                     overflow_checks)
          IN Do("offset", [type |-> type, handle |-> h, offsets |-> <<a, b>>],
                Outcome(IF second.kind = "Panic" THEN second
                        ELSE Ok([first |-> first.value, second |-> second.value,
                                 receiver |-> h]),
                        <<>>, <<>>))

ConvNext ==
    \/ EnumRoundTrip
    \/ EnumFromRepr
    \/ EnumAsRaw
    \/ FlagsRoundTrip
    \/ FlagsFromBits
    \/ FlagsCombine
    \/ FlagsAsRaw
    \/ AdapterDescFrom
    \/ WrapConstantBufferData
    \/ OffsetHandle
    \/ Finish

ConvSpec == Init /\ [][ConvNext]_vars

(***************************************************************************)
(* The scratch arrays of the conversions.  The client runs an operation    *)
(* that builds a native struct pointing into a scratch array; the native   *)
(* call that takes the struct reads the array through the pointer.         *)
(***************************************************************************)
BaseLevels == UNION {[1..n -> FeatureLevels] : n \in 1..2}
FeatureLevelSlices == {Cycle(b, n) : b \in BaseLevels, n \in 0..MaxLevels}

\* The client has FeatureLevels::into_raw build the raw struct of a query.
IntoRaw ==
    /\ Idle
    /\ \E ls \in FeatureLevelSlices :
          LET input == [feature_levels_requested |-> ls]
              out == FeatureLevels_into_raw(input)
          IN /\ op' = "into_raw"
             /\ arg' = input
             /\ calls' = <<>>
             /\ scratch' = out.scratch
             /\ ret' = Ok(out.ret)
             /\ mem' = out.mem
    /\ UNCHANGED <<refs, live, gpu>>

\* The feature query takes the raw struct into_raw returned: the native
\* CheckFeatureSupport reads the requested levels through the pointer and
\* writes the highest one it supports.
CheckFeatureSupport ==
    /\ op = "into_raw"
    /\ ret.kind = "Ok"
    /\ LET raw == ret.value
           target == mem[raw.pFeatureLevelsRequested.storage]
       IN \E seen \in ReadThrough(target, raw.NumFeatureLevels),
             r \in {Ok("()")} \cup {Err(c) : c \in FailureCodes},
             l \in FeatureLevels :
             /\ calls' = <<[fn |-> "CheckFeatureSupport",
                            feature |-> "D3D12_FEATURE_FEATURE_LEVELS",
                            data |-> raw, storage |-> target.state,
                            seen |-> seen, result |-> r]>>
             /\ ret' = IF r.kind = "Err"
                       THEN Err(DxError_from(r.err))
                       ELSE Ok(FeatureLevels_from_raw(
                                [raw EXCEPT !.MaxSupportedFeatureLevel =
                                                FeatureLevel_as_raw(l)]))
    /\ op' = "check_feature_support"
    /\ UNCHANGED <<arg, scratch, mem, refs, live, gpu>>

\* create_root_signature, statement by statement.  The native answers that
\* are not in yet play no part in what was done up to the statement at hand.
AnySerializeAnswer == CHOOSE a \in SerializeAnswers : a.result.kind = "Ok" /\ a.out.some
AnyRootSignature == CHOOSE r \in NativeResults("ID3D12RootSignature") : r.kind = "Ok"

\* A variant that takes the pointers of temporaries: each array is dropped
\* at the end of the statement that built it.
RootSignatureScratch_temporaries(out) ==
    [i \in 1..Len(out.scratch) |-> drop_storage(storage_of(out.scratch[i]))]

\* The locals parameters and sampler: each SmallVec is bound by a let and
\* lives until create_root_signature returns.
RootSignatureScratch(out) ==
    [i \in 1..Len(out.scratch) |-> storage_of(out.scratch[i])]

\* Return and unwinding alike drop the locals.
drop_locals(m) == [i \in 1..Len(m) |-> drop_storage(m[i])]

Running(at) == [kind |-> "Running", at |-> at]

\* The arrays are collected and the native description is built.
RootSignatureCollect ==
    /\ Idle
    /\ \E d \in RootSignatureDescs, v \in RootSignatureVersions, m \in 0..MaxMask :
          LET out == create_root_signature(d, v, m, AnySerializeAnswer, AnyRootSignature)
              locals == RootSignatureScratch(out)
          IN /\ op' = "create_root_signature"
             /\ arg' = [desc |-> d, version |-> v, nodemask |-> m]
             /\ calls' = <<>>
             /\ scratch' = out.scratch
             /\ IF out.calls = <<>>
                THEN /\ ret' = out.ret
                     /\ mem' = drop_locals(locals)
                ELSE /\ ret' = Running("D3D12SerializeRootSignature")
                     /\ mem' = locals
    /\ UNCHANGED <<refs, live, gpu>>

\* D3D12SerializeRootSignature reads the two arrays through the pointers
\* of the description.
RootSignatureSerialize ==
    /\ op = "create_root_signature"
    /\ ret = Running("D3D12SerializeRootSignature")
    /\ \E ser \in SerializeAnswers :
          LET out == create_root_signature(arg.desc, arg.version, arg.nodemask,
                                           ser, AnyRootSignature)
              call == out.calls[1]
          IN \E p \in ReadThrough(mem[1], call.desc.NumParameters),
                q \in ReadThrough(mem[2], call.desc.NumStaticSamplers) :
                /\ calls' = <<call @@ [storage |-> <<mem[1].state, mem[2].state>>,
                                       seen |-> <<p, q>>]>>
                /\ IF Len(out.calls) = 1
                   THEN /\ ret' = out.ret
                        /\ mem' = drop_locals(mem)
                   ELSE /\ ret' = Running("CreateRootSignature")
                        /\ mem' = mem
    /\ UNCHANGED <<op, arg, scratch, refs, live, gpu>>

\* CreateRootSignature takes the serialized blob; then the function returns.
RootSignatureCreate ==
    /\ op = "create_root_signature"
    /\ ret = Running("CreateRootSignature")
    /\ \E r \in NativeResults("ID3D12RootSignature") :
          LET ser == [result |-> calls[1].result, out |-> calls[1].out]
              out == create_root_signature(arg.desc, arg.version, arg.nodemask, ser, r)
          IN /\ calls' = Append(calls, out.calls[2])
             /\ ret' = out.ret
             /\ refs' = RefsAfter(refs, op, out)
             /\ mem' = drop_locals(mem)
    /\ UNCHANGED <<op, arg, scratch, live, gpu>>

ScratchNext ==
    \/ IntoRaw
    \/ CheckFeatureSupport
    \/ RootSignatureCollect
    \/ RootSignatureSerialize
    \/ RootSignatureCreate
    \/ Finish

ScratchSpec == Init /\ [][ScratchNext]_vars

(***************************************************************************)
(* The references execute_command_lists takes.  A successful cast is a     *)
(* QueryInterface: it hands out a new reference to the object, which the   *)
(* scratch vector owns until it is dropped.  The client submits command    *)
(* lists it holds wrappers of.                                             *)
(***************************************************************************)
\* The references the interfaces in a scratch vector own, per object.
HeldBy(vec) ==
    [o \in NativeObjects |->
        Cardinality({i \in DOMAIN as_slice(vec) : as_slice(vec)[i].v.obj = o})]

\* cast::<ID3D12CommandList>() of each list collected: one AddRef each.
AddRefs(r, vec) == [o \in NativeObjects |-> r[o] + HeldBy(vec)[o]]

\* A variant that releases only the interfaces in the inline storage.
ReleaseRefs_inline_only(r, vec) ==
    [o \in NativeObjects |->
        r[o] - Cardinality({i \in DOMAIN as_slice(vec) :
                               i <= InlineCap /\ as_slice(vec)[i].v.obj = o})]

\* The drop of the scratch vector: one Release for each interface in it.
ReleaseRefs(r, vec) == [o \in NativeObjects |-> r[o] - HeldBy(vec)[o]]

\* The client creates a command list.
CreateList ==
    /\ Idle
    /\ \E ca \in Handles("CommandAllocator", "ID3D12CommandAllocator"),
          pso \in Handles("PipelineState", "ID3D12PipelineState"),
          r \in NativeResults("ID3D12GraphicsCommandList") :
          /\ as_raw(ca).obj = "objA"
          /\ as_raw(pso).obj = "objA"
          /\ Do("create_command_list",
                [nodemask |-> 0, type |-> "Direct", command_allocator |-> ca,
                 pso |-> pso],
                create_command_list(0, "Direct", ca, pso, r))

\* execute_command_lists, statement by statement: the map and collect.
\* A cast that fails panics, and the unwinding drops what was collected.
ExecuteCollect ==
    /\ Idle
    /\ \E ls \in CommandListSeqs, bad \in SUBSET NativeObjects :
          LET out == execute_command_lists(ls, bad)
          IN /\ \A i \in DOMAIN ls : live[as_raw(ls[i]).obj] > 0
             /\ op' = "execute_command_lists"
             /\ arg' = [command_lists |-> ls, uncastable |-> bad]
             /\ calls' = <<>>
             /\ scratch' = out.scratch
             /\ IF out.calls = <<>>
                THEN /\ ret' = out.ret
                     /\ refs' = ReleaseRefs(AddRefs(refs, out.scratch[1]), out.scratch[1])
                ELSE /\ ret' = Running("ExecuteCommandLists")
                     /\ refs' = AddRefs(refs, out.scratch[1])
    /\ UNCHANGED <<live, gpu, mem>>

\* The native ExecuteCommandLists call on the slice of the scratch vector.
ExecuteNative ==
    /\ op = "execute_command_lists"
    /\ ret = Running("ExecuteCommandLists")
    /\ calls' = execute_command_lists(arg.command_lists, arg.uncastable).calls
    /\ ret' = Running("return")
    /\ UNCHANGED <<op, arg, scratch, refs, live, gpu, mem>>

\* execute_command_lists returns: the scratch vector is dropped.
ExecuteReturn ==
    /\ op = "execute_command_lists"
    /\ ret = Running("return")
    /\ ret' = execute_command_lists(arg.command_lists, arg.uncastable).ret
    /\ refs' = ReleaseRefs(refs, scratch[1])
    /\ UNCHANGED <<op, arg, calls, scratch, live, gpu, mem>>

SubmitNext ==
    \/ CreateList
    \/ Keep
    \/ DropHandle
    \/ ExecuteCollect
    \/ ExecuteNative
    \/ ExecuteReturn
    \/ Finish

SubmitSpec == Init /\ [][SubmitNext]_vars

Next ==
    \/ CreateCommandAllocator
    \/ CreateCommandQueue
    \/ CreateFence
    \/ CreateDescriptorHeap
    \/ CreateRenderTargetView
    \/ CreateCommandList
    \/ CreateRootSignature
    \/ ExecuteCommandLists
    \/ Signal
    \/ GetClockCalibration
    \/ CopyTileMappings
    \/ CreateDefaultBuffer
    \/ CreateFactory
    \/ CreateDevice
    \/ CreateDebug
    \/ LoadBinary
    \/ Finish

Spec == Init /\ [][Next]_vars

(***************************************************************************)
(* Properties.                                                             *)
(***************************************************************************)

\* The union arm of D3D12_RENDER_TARGET_VIEW_DESC a discriminant selects.
RtvArmOf(dimension) ==
    CASE dimension = "D3D12_RTV_DIMENSION_BUFFER" -> "Buffer"
      [] dimension = "D3D12_RTV_DIMENSION_TEXTURE1D" -> "Texture1D"
      [] dimension = "D3D12_RTV_DIMENSION_TEXTURE1DARRAY" -> "Texture1DArray"
      [] dimension = "D3D12_RTV_DIMENSION_TEXTURE2D" -> "Texture2D"
      [] dimension = "D3D12_RTV_DIMENSION_TEXTURE2DARRAY" -> "Texture2DArray"
      [] dimension = "D3D12_RTV_DIMENSION_TEXTURE2DMS" -> "Texture2DMS"
      [] dimension = "D3D12_RTV_DIMENSION_TEXTURE2DMSARRAY" -> "Texture2DMSArray"
      [] dimension = "D3D12_RTV_DIMENSION_TEXTURE3D" -> "Texture3D"

\* The discriminant each ViewDimension variant is to be converted to.
RtvDimensionOf(variant) ==
    CASE variant = "Buffer" -> "D3D12_RTV_DIMENSION_BUFFER"
      [] variant = "Tex1D" -> "D3D12_RTV_DIMENSION_TEXTURE1D"
      [] variant = "Tex2D" -> "D3D12_RTV_DIMENSION_TEXTURE2D"
      [] variant = "Tex3D" -> "D3D12_RTV_DIMENSION_TEXTURE3D"
      [] variant = "ArrayTex1D" -> "D3D12_RTV_DIMENSION_TEXTURE1DARRAY"
      [] variant = "ArrayTex2D" -> "D3D12_RTV_DIMENSION_TEXTURE2DARRAY"
      [] variant = "Tex2DMs" -> "D3D12_RTV_DIMENSION_TEXTURE2DMS"
      [] variant = "Array2DMs" -> "D3D12_RTV_DIMENSION_TEXTURE2DMSARRAY"

\* The field of the structured value a native payload field is named after.
LikeNamed(field) ==
    CASE field = "FirstElement" -> "first_element"
      [] field = "NumElements" -> "num_elements"
      [] field = "MipSlice" -> "mip_slice"
      [] field = "PlaneSlice" -> "plane_slice"
      [] field = "FirstWSlice" -> "first_w_slice"
      [] field = "WSize" -> "w_size"
      [] field = "FirstArraySlice" -> "first_array_slice"
      [] field = "ArraySize" -> "array_size"
      [] field = "ShaderRegister" -> "shader_register"
      [] field = "RegisterSpace" -> "register_space"
      [] field = "Num32BitValues" -> "num_32bit_values"

\* The payload fields of a union value: all but the arm's name and the
\* placeholder of an arm that has nothing to define.
PayloadFields(u) == DOMAIN u \ {"arm", "UnusedField_NothingToDefine"}

\* Every payload field of the union equals the like-named field of the
\* variant, and every field of the variant is carried by the union.
PayloadAgrees(v, u) ==
    /\ \A f \in PayloadFields(u) :
          /\ LikeNamed(f) \in DOMAIN v
          /\ u[f] = v[LikeNamed(f)]
    /\ {LikeNamed(f) : f \in PayloadFields(u)} = DOMAIN v \ {"variant"}

\* C1: for every ViewDimension variant, the native render-target view
\* descriptor handed to CreateRenderTargetView carries the discriminant of
\* that variant, the union arm written is the arm that discriminant selects,
\* and each payload field of the arm equals the like-named field of the variant.
C1_ViewDimensionTagAndPayloadAgree ==
    (op = "create_render_target_view" /\ arg.view_desc.some) =>
        LET v == arg.view_desc.v.dimension
            raw == calls[1].desc.v
        IN /\ raw.ViewDimension = RtvDimensionOf(v.variant)
           /\ raw.Anonymous.arm = RtvArmOf(raw.ViewDimension)
           /\ PayloadAgrees(v, raw.Anonymous)

C1_Witness ==
    /\ op = "create_render_target_view"
    /\ arg.view_desc.some
    /\ arg.view_desc.v.dimension.variant = "ArrayTex2D"
    /\ arg.view_desc.v.dimension.mip_slice = 1
    /\ arg.view_desc.v.dimension.plane_slice = 0
    /\ calls[1].desc.v.ViewDimension = "D3D12_RTV_DIMENSION_TEXTURE2DARRAY"
    /\ calls[1].desc.v.Anonymous.MipSlice = 1

\* The type tag and the union arm a root parameter variant is converted to.
RootParameterTagOf(variant) ==
    CASE variant = "DescriptorTable" -> "D3D12_ROOT_PARAMETER_TYPE_DESCRIPTOR_TABLE"
      [] variant = "Constants" -> "D3D12_ROOT_PARAMETER_TYPE_32BIT_CONSTANTS"
      [] variant = "Cbv" -> "D3D12_ROOT_PARAMETER_TYPE_CBV"
      [] variant = "Srv" -> "D3D12_ROOT_PARAMETER_TYPE_SRV"
      [] variant = "Uav" -> "D3D12_ROOT_PARAMETER_TYPE_UAV"

RootParameterArmOf(tag) ==
    CASE tag = "D3D12_ROOT_PARAMETER_TYPE_DESCRIPTOR_TABLE" -> "DescriptorTable"
      [] tag = "D3D12_ROOT_PARAMETER_TYPE_32BIT_CONSTANTS" -> "Constants"
      [] tag \in {"D3D12_ROOT_PARAMETER_TYPE_CBV", "D3D12_ROOT_PARAMETER_TYPE_SRV",
                  "D3D12_ROOT_PARAMETER_TYPE_UAV"} -> "Descriptor"

RootParameterAgrees(p, raw) ==
    /\ raw.ParameterType = RootParameterTagOf(p.type.variant)
    /\ raw.Anonymous.arm = RootParameterArmOf(raw.ParameterType)
    /\ IF p.type.variant = "DescriptorTable"
       THEN /\ raw.Anonymous.NumDescriptorRanges = Len(p.type.ranges)
            /\ raw.Anonymous.pDescriptorRanges = p.type.ranges
       ELSE PayloadAgrees(p.type, raw.Anonymous)
    /\ raw.ShaderVisibility.D3D12_SHADER_VISIBILITY = ShaderVisibilityDiscriminant(p.visibility)

\* C2: for every root parameter of the descriptor, the native parameter that
\* reaches the serializer carries the type tag of its variant and the union
\* arm that tag selects (DescriptorTable with the number of ranges, Constants
\* with register, space and count, Descriptor with register and space for
\* Cbv, Srv and Uav), and the shader visibility of the parameter.
C2_RootParameterTagAndPayloadAgree ==
    (op = "create_root_signature" /\ calls # <<>>) =>
        LET raw == calls[1].desc.pParameters
        IN /\ Len(raw) = Len(arg.desc.parameters)
           /\ \A i \in 1..Len(raw) : RootParameterAgrees(arg.desc.parameters[i], raw[i])

C2_Witness ==
    /\ op = "create_root_signature"
    /\ calls # <<>>
    /\ Len(arg.desc.parameters) = 2
    /\ arg.desc.parameters[1].type.variant = "Constants"
    /\ arg.desc.parameters[1].type.num_32bit_values = 1
    /\ arg.desc.parameters[1].type.shader_register = 0
    /\ arg.desc.parameters[1].visibility = "Pixel"
    /\ arg.desc.parameters[2].type.variant = "DescriptorTable"
    /\ calls[1].desc.pParameters[1].Anonymous.Num32BitValues = 1

\* The base-interface cast of a command list handle.
BaseOf(l) == Some(Raw("ID3D12CommandList", l.raw.obj))

\* The native array is the iterable, element for element, each cast to the
\* base interface.
SubmittedInOrder(lists, submitted) ==
    /\ Len(submitted) = Len(lists)
    /\ \A i \in 1..Len(lists) : submitted[i] = BaseOf(lists[i])

\* C3: when execute_command_lists returns, it has handed the native
\* ExecuteCommandLists one array of the iterable's length whose i-th element
\* is the base-interface cast of the iterable's i-th element.
C3_ExecutePreservesOrder ==
    (op = "execute_command_lists" /\ ret.kind = "Return") =>
        /\ Len(calls) = 1
        /\ calls[1].fn = "ExecuteCommandLists"
        /\ SubmittedInOrder(arg.command_lists, calls[1].lists)

C3_Witness ==
    /\ op = "execute_command_lists"
    /\ ret.kind = "Return"
    /\ Len(arg.command_lists) = 3
    /\ arg.command_lists[1] # arg.command_lists[2]
    /\ arg.command_lists[2] = arg.command_lists[3]
    /\ calls[1].lists[1] = BaseOf(arg.command_lists[1])

\* C4: with exactly InlineCap lists the scratch array is inline, with one
\* more it has spilled to the heap, and in both cases the array submitted is
\* the scratch array and equals the iterable element for element.
C4_InlineAndSpilledSubmitAlike ==
    (/\ op = "execute_command_lists"
     /\ ret.kind = "Return"
     /\ Len(arg.command_lists) \in {InlineCap, InlineCap + 1}) =>
        /\ scratch[1].spilled = (Len(arg.command_lists) > InlineCap)
        /\ Len(calls) = 1
        /\ calls[1].lists = scratch[1].items
        /\ SubmittedInOrder(arg.command_lists, calls[1].lists)

C4_Witness ==
    /\ op = "execute_command_lists"
    /\ ret.kind = "Return"
    /\ Len(arg.command_lists) = InlineCap + 1
    /\ scratch[1].spilled
    /\ arg.command_lists[InlineCap] # arg.command_lists[InlineCap + 1]
    /\ calls[1].lists[InlineCap + 1] = BaseOf(arg.command_lists[InlineCap + 1])

\* C5 as stated: with an empty iterable the native ExecuteCommandLists is
\* not invoked with a zero-length array.
C5_EmptyIsNoNativeCall ==
    (op = "execute_command_lists" /\ arg.command_lists = <<>>) =>
        \A i \in 1..Len(calls) :
            ~(calls[i].fn = "ExecuteCommandLists" /\ calls[i].lists = <<>>)

\* C5 amended: with an empty iterable execute_command_lists returns without
\* panicking after invoking the native ExecuteCommandLists exactly once,
\* with a zero-length array, so that no command list is submitted.
C5_EmptySubmitsZeroLengthArray ==
    (op = "execute_command_lists" /\ arg.command_lists = <<>>) =>
        /\ ret.kind = "Return"
        /\ calls = <<[fn |-> "ExecuteCommandLists", lists |-> <<>>]>>

C5_Witness ==
    /\ op = "execute_command_lists"
    /\ arg.command_lists = <<>>
    /\ Len(calls) = 1

\* The calls create_default_buffer records on the command list.
OnCommandList(c) == c.fn \in {"resource_barrier", "update_subresources_fixed"}

IsTransition(c, resource, before, after) ==
    /\ c.fn = "resource_barrier"
    /\ c.barriers = <<[type |-> "Transition", resource |-> resource,
                       before |-> before, after |-> after]>>

\* The state the native layer holds a resource in after the first n calls:
\* its initial state once created, then the 'after' of each transition.
RECURSIVE ResourceStateAfter(_, _, _)
ResourceStateAfter(log, n, resource) ==
    IF n = 0 THEN "NotCreated"
    ELSE LET c == log[n]
         IN IF /\ c.fn = "create_committed_resource"
               /\ c.result.kind = "Ok"
               /\ c.result.value.raw = resource
            THEN c.state
            ELSE IF c.fn = "resource_barrier" /\ c.barriers[1].resource = resource
            THEN c.barriers[1].after
            ELSE ResourceStateAfter(log, n - 1, resource)

\* C6: what create_default_buffer records on the command list is, in this
\* order and with nothing in between, the transition of the default buffer
\* Common -> CopyDest, one subresource update into the default buffer staged
\* through the upload buffer, and the transition CopyDest -> GenericRead
\* (all three when it returns, a prefix of them when it panics); both
\* buffers are created before the first of them, the 'before' of each
\* barrier is the state the buffer was left in, and on return the default
\* buffer is in GenericRead.
C6_UploadProtocolOrder ==
    op = "create_default_buffer" =>
        LET recorded == SelectSeq(calls, OnCommandList)
            default == calls[1].result.value.raw
            upload == calls[2].result.value.raw
        IN /\ \A k \in 1..Len(calls) :
                 OnCommandList(calls[k]) =>
                    /\ k > 2
                    /\ \A j \in 1..2 : /\ calls[j].fn = "create_committed_resource"
                                       /\ calls[j].result.kind = "Ok"
                    /\ \A j \in 3..k : OnCommandList(calls[j])
           /\ Len(recorded) <= 3
           /\ Len(recorded) >= 1 => IsTransition(recorded[1], default, "Common", "CopyDest")
           /\ Len(recorded) >= 2 => /\ recorded[2].fn = "update_subresources_fixed"
                                    /\ recorded[2].dest = default
                                    /\ recorded[2].intermediate = upload
           /\ Len(recorded) >= 3 => IsTransition(recorded[3], default, "CopyDest", "GenericRead")
           /\ \A k \in 1..Len(calls) :
                 calls[k].fn = "resource_barrier" =>
                    calls[k].barriers[1].before =
                        ResourceStateAfter(calls, k - 1, calls[k].barriers[1].resource)
           /\ ret.kind = "Ok" =>
                 /\ Len(recorded) = 3
                 /\ ResourceStateAfter(calls, Len(calls), default) = "GenericRead"

C6_Witness ==
    /\ op = "create_default_buffer"
    /\ ret.kind = "Ok"
    /\ Len(calls) = 5
    /\ arg.data.len = 2
    /\ calls[5].barriers[1].after = "GenericRead"

\* C7: an update that reports 0 transferred bytes makes create_default_buffer
\* panic, with no CopyDest -> GenericRead barrier recorded and no pair
\* returned; whenever it returns, the update reported a count above 0.
C7_ZeroByteUpdatePanics ==
    op = "create_default_buffer" =>
        LET updates == {k \in 1..Len(calls) : calls[k].fn = "update_subresources_fixed"}
        IN /\ (\E k \in updates : calls[k].result = 0) =>
                 /\ ret.kind = "Panic"
                 /\ \A j \in 1..Len(calls) :
                       calls[j].fn = "resource_barrier" =>
                          calls[j].barriers[1].after # "GenericRead"
           /\ ret.kind = "Ok" =>
                 /\ updates # {}
                 /\ \A k \in updates : calls[k].result > 0

C7_Witness ==
    /\ op = "create_default_buffer"
    /\ arg.data.len > 0
    /\ Len(calls) = 4
    /\ calls[4].fn = "update_subresources_fixed"
    /\ calls[4].result = 0
    /\ ret.kind = "Panic"

\* C8: create_root_signature calls the native serializer first; it calls
\* CreateRootSignature only after a successful serialization and with the
\* pointer and size of the blob the serializer produced; a failure of
\* either call yields Err(Dummy) and no handle, and Ok(handle) is returned
\* exactly when both calls succeed.
C8_RootSignatureTwoSteps ==
    op = "create_root_signature" =>
        /\ Len(calls) <= 2
        /\ \A k \in 1..Len(calls) :
              /\ (k = 1) = (calls[k].fn = "D3D12SerializeRootSignature")
              /\ (k = 2) = (calls[k].fn = "CreateRootSignature")
        /\ Len(calls) = 2 =>
              /\ calls[1].result.kind = "Ok"
              /\ calls[1].out.some
              /\ calls[2].blob = [ptr |-> calls[1].out.v.ptr,
                                  len |-> Len(calls[1].out.v.bytes)]
        /\ (Len(calls) >= 1 /\ calls[1].result.kind = "Err") =>
              /\ Len(calls) = 1
              /\ ret = Err("Dummy")
        /\ (Len(calls) = 2 /\ calls[2].result.kind = "Err") => ret = Err("Dummy")
        /\ ret.kind = "Err" => ret = Err("Dummy")
        /\ ret.kind = "Ok" <=>
              /\ Len(calls) = 2
              /\ calls[1].result.kind = "Ok"
              /\ calls[2].result.kind = "Ok"
        /\ ret.kind = "Ok" => ret.value = New("RootSignature", calls[2].result.value)

C8_Witness ==
    /\ op = "create_root_signature"
    /\ ret.kind = "Ok"
    /\ Len(calls) = 2
    /\ calls[1].out.v.ptr = "blobB"
    /\ calls[2].blob = [ptr |-> "blobB", len |-> 2]
    /\ Len(arg.desc.parameters) = 1

DummyOps ==
    {"create_command_allocator", "create_command_queue", "create_fence",
     "create_descriptor_heap", "create_command_list", "signal"}

\* C9: each of create_command_allocator, create_command_queue, create_fence,
\* create_descriptor_heap, create_command_list and signal makes one native
\* call, returns Err(Dummy) whenever that call fails, whatever its error
\* code, and Ok exactly when it succeeds; a handle is built only on success
\* and wraps the object the native call returned.
C9_NativeFailureIsDummy ==
    op \in DummyOps =>
        /\ Len(calls) = 1
        /\ calls[1].result.kind = "Err" => ret = Err("Dummy")
        /\ (calls[1].result.kind = "Ok") <=> (ret.kind = "Ok")
        /\ (ret.kind = "Ok" /\ op # "signal") => ret.value.raw = calls[1].result.value

C9_Witness ==
    /\ op = "signal"
    /\ calls[1].result = Err("E_OUTOFMEMORY")
    /\ ret = Err("Dummy")

\* C10 as stated: no descriptor-to-native conversion panics, so that
\* create_root_signature reaches the native serializer for every
\* RootSignatureDesc, one with static samplers included.
C10_ConversionsTotal ==
    /\ ret.kind = "Panic" => ret.msg # "not yet implemented"
    /\ op = "create_root_signature" =>
          /\ calls # <<>>
          /\ calls[1].fn = "D3D12SerializeRootSignature"

EntryOps == {"create_factory", "create_device", "create_debug"}

\* The object the native call of an entry operation handed out: the value
\* of its result (create_factory) or what it left in its out-parameter.
EntryNativeObject(c) ==
    IF "out" \in DOMAIN c THEN c.out ELSE Some(c.result.value)

\* C11: create_factory, create_device and create_debug make one native call
\* asking for the raw interface of the requested wrapper type; when it
\* succeeds and fills its out-parameter they return Ok of a handle of that
\* type wrapping the native object; when it fails they return the native
\* error demoted through DxError::from, never Dummy, and build no handle;
\* they panic only on a success that left the out-parameter empty.
\* create_device passes the given adapter when Some and none when None, and
\* the converted feature level in both cases.
C11_EntryCreateContract ==
    op \in EntryOps =>
        /\ Len(calls) = 1
        /\ calls[1].iface = RawOf(arg.type)
        /\ calls[1].result.kind = "Err" =>
              /\ ret = Err(DxError_from(calls[1].result.err))
              /\ ret.err.kind # "Dummy"
        /\ (calls[1].result.kind = "Ok" /\ EntryNativeObject(calls[1]).some) =>
              ret = Ok(New(arg.type, EntryNativeObject(calls[1]).v))
        /\ ret.kind = "Panic" <=>
              (calls[1].result.kind = "Ok" /\ ~EntryNativeObject(calls[1]).some)
        /\ op = "create_device" =>
              /\ calls[1].adapter.some = arg.adapter.some
              /\ arg.adapter.some => calls[1].adapter.v = arg.adapter.v.raw
              /\ calls[1].feature_level =
                    [D3D_FEATURE_LEVEL |-> FeatureLevelDiscriminant(arg.feature_level)]

C11_Witness ==
    /\ op = "create_device"
    /\ arg.adapter.some
    /\ arg.feature_level = "Level12"
    /\ calls[1].adapter = Some(Raw("IDXGIAdapter3", "objB"))
    /\ calls[1].result.kind = "Ok"
    /\ ret = Ok(New("Device", Raw("ID3D12Device", "objA")))

\* C12: a wrapper owns exactly one native reference.  The reference count
\* of each native object equals the number of wrappers of it that are alive
\* (those the client holds and the one just returned); building a wrapper
\* from a successful create adds none beyond the one the native call handed
\* out, dropping one releases exactly one, and the count is zero once no
\* wrapper of the object is left.
C12_WrapperOwnsOneReference ==
    \A o \in NativeObjects :
        /\ refs[o] = live[o] + Owned(op, ret)[o]
        /\ (live[o] = 0 /\ Owned(op, ret)[o] = 0) => refs[o] = 0

C12_Witness ==
    /\ op = "create_fence"
    /\ ret = Ok(New("Fence", Raw("ID3D12Fence", "objA")))
    /\ live["objA"] = 2
    /\ live["objB"] = 0
    /\ refs["objA"] = 3

\* The work signal(f, v) leaves on the queue after n batches were accepted.
SignalItem(f, v, n) ==
    [kind |-> "signal", count |-> 0, fence |-> f, value |-> v, after |-> n]

\* C13: signal returns without waiting: when it returns Ok its write of v
\* to the fence is the last work on the queue and neither the fence nor
\* the completed work has changed.  A fence changes only by the GPU
\* reaching a signal on the queue, and then every batch accepted before
\* that signal has completed.  If the GPU makes progress, the fence
\* eventually holds v after signal(fence, v) returned Ok.
C13_SignalAfterPriorWork ==
    /\ [][(op = "idle" /\ op' = "signal" /\ ret'.kind = "Ok") =>
            /\ queue' = Append(queue,
                               SignalItem(arg'.fence.raw.obj, arg'.value, accepted))
            /\ fences' = fences
            /\ completed' = completed]_vars
    /\ [][fences' # fences =>
            /\ queue # <<>>
            /\ Head(queue).kind = "signal"
            /\ Head(queue).after <= completed
            /\ fences' = [fences EXCEPT ![Head(queue).fence] = Head(queue).value]]_vars
    /\ \A f \in NativeObjects : \A v \in 1..MaxValue :
          (op = "signal" /\ ret.kind = "Ok" /\ arg.fence.raw.obj = f /\ arg.value = v)
              ~> (fences[f] = v)

\* A signal returned Ok while a batch accepted before it is still pending
\* and the fence has not been written.
C13_Witness ==
    /\ op = "signal"
    /\ ret.kind = "Ok"
    /\ arg.value = 1
    /\ Len(queue) = 2
    /\ queue[1].kind = "lists"
    /\ queue[1].count = 1
    /\ queue[2] = SignalItem(arg.fence.raw.obj, 1, 1)
    /\ completed = 0
    /\ fences[arg.fence.raw.obj] = 0

\* C14: enum conversions round-trip and are one-to-one.  For every variant
\* of CommandQueuePriority, CommandListType, CpuPageProperty,
\* DescriptorHeapType, FeatureType, HeapAlignment, HeapType and MemoryPool,
\* from_repr of the variant's native value is the variant, and no other
\* variant of the enum has that native value; from_repr of an integer is a
\* variant with that value or None when there is none; and as_raw returns
\* the native value of the variant's declared discriminant.
C14_EnumsRoundTrip ==
    /\ op = "enum_round_trip" =>
          /\ ret.value.back = Some(arg.variant)
          /\ \A w \in Variants(arg.enum) \ {arg.variant} :
                Repr(arg.enum, w) # ret.value.raw
    /\ op = "from_repr" =>
          IF ret.value.some
          THEN /\ ret.value.v \in Variants(arg.enum)
               /\ Repr(arg.enum, ret.value.v) = arg.repr
          ELSE \A w \in Variants(arg.enum) : Repr(arg.enum, w) # arg.repr
    /\ op = "enum_as_raw" =>
          /\ ret.value = Repr(arg.enum, arg.variant)
          /\ from_repr(arg.enum, ret.value) = Some(arg.variant)

C14_Witness ==
    /\ op = "enum_round_trip"
    /\ arg.enum = "DescriptorHeapType"
    /\ arg.variant = "Rtv"
    /\ ret.value.raw = 2
    /\ ret.value.back = Some("Rtv")

\* The flags of the type a flag set holds.
Members(F, x) == {flag \in FlagsOf(F) : contains(F, x, flag)}

\* C15: flag sets round-trip.  For every subset s of the flags of a flag
\* set type, the flag set built from s holds exactly the flags of s and
\* from_bits of its bits is that flag set; from_bits of a bit pattern is
\* Some exactly when the pattern has defined bits only; the native flags
\* value as_raw writes is the bits of the flag set; and the union,
\* intersection and difference of two flag sets hold the union,
\* intersection and difference of their flags and have the bitwise OR, AND
\* and AND-NOT of their bits.
C15_FlagSetsRoundTrip ==
    /\ op = "flags_round_trip" =>
          /\ Members(arg.type, ret.value.set) = arg.subset
          /\ ret.value.back = Some(ret.value.set)
    /\ op = "from_bits" =>
          /\ ret.value.some <=>
                \A i \in BitPositions :
                    Bit(arg.bits, i) = 1 =>
                        \E flag \in FlagsOf(arg.type) : Bit(FlagBits(arg.type, flag), i) = 1
          /\ ret.value.some => bits(ret.value.v) = arg.bits
    /\ op = "flags_as_raw" => ret.value = bits(arg.flags)
    /\ op = "flags_combine" =>
          LET F == arg.type
              x == FlagSetOf(F, arg.left)
              y == FlagSetOf(F, arg.right)
          IN /\ Members(F, ret.value.union) = arg.left \cup arg.right
             /\ Members(F, ret.value.intersection) = arg.left \cap arg.right
             /\ Members(F, ret.value.difference) = arg.left \ arg.right
             /\ bits(ret.value.union) = BitOr(bits(x), bits(y))
             /\ bits(ret.value.intersection) = BitAnd(bits(x), bits(y))
             /\ bits(ret.value.difference) = BitAndNot(bits(x), bits(y))

C15_Witness ==
    /\ op = "flags_as_raw"
    /\ arg.of = "CommandQueueDesc"
    /\ bits(arg.flags) = 1
    /\ ret.value = 1

\* The recognised bits of a native adapter flags value.
Recognised(n) == BitAnd(n, bits(all("AdapterFlags")))

\* C16: converting a native adapter description never fails or panics,
\* whatever its Flags: with recognised bits only, the flag set of the
\* result has exactly those bits; with an unrecognised bit, the result is
\* still a description, its flag set being the default (empty) one; the
\* other fields of the result are fields of the native value.
C16_AdapterDescConversionTotal ==
    op = "adapter_desc_from" =>
        /\ ret.kind = "Ok"
        /\ Recognised(arg.Flags) = arg.Flags => bits(ret.value.flags) = arg.Flags
        /\ Recognised(arg.Flags) # arg.Flags => ret.value.flags = empty
        /\ ret.value.dedicated_video_memory = arg.DedicatedVideoMemory
        /\ ret.value.shared_system_memory = arg.SharedSystemMemory

C16_Witness ==
    /\ op = "adapter_desc_from"
    /\ arg.Flags = 6
    /\ ret.kind = "Ok"
    /\ ret.value.flags = empty

\* C17 as stated: every recognised bit set in the native Flags value is
\* set in the converted flag set and only the unrecognised bits are lost.
C17_KnownAdapterFlagsPreserved ==
    op = "adapter_desc_from" =>
        /\ ret.kind = "Ok"
        /\ bits(ret.value.flags) = Recognised(arg.Flags)

\* C18: ConstantBufferData<T> forces the 256-byte layout for every inner
\* type T: its alignment is the larger of 256 and the alignment of T, its
\* size is the size of T rounded up to that alignment (the least multiple
\* of it that holds T), hence a multiple of 256, and dereferencing the
\* wrapper yields the inner value.
C18_ConstantBufferLayout ==
    op = "constant_buffer_data" =>
        LET T == arg.type
            L == ret.value.layout
        IN /\ L.align >= 256
           /\ L.align = (IF T.align > 256 THEN T.align ELSE 256)
           /\ L.size % L.align = 0
           /\ L.size >= T.size
           /\ L.size - T.size < L.align
           /\ L.size % 256 = 0
           /\ ret.value.deref = arg.value

C18_Witness ==
    /\ op = "constant_buffer_data"
    /\ arg.type = [size |-> 260, align |-> 4]
    /\ ret.value.layout = [size |-> 512, align |-> 256]
    /\ arg.value = 1
    /\ ret.value.deref = 1

\* The calls of a log to the named function.
CallsTo(log, fn) == SelectSeq(log, LAMBDA c : c.fn = fn)

\* C19: load_binary on a zero-byte file returns a zero-length blob and does
\* not fail because the file is empty: when the file opens, its size is
\* found and the blob is allocated, the blob asked for has size 0, the one
\* read is handed an empty buffer and transfers 0 bytes, and the blob
\* returned has length 0; a panic comes only from a failed open, seek or
\* allocation.
C19_EmptyFileLoadsEmptyBlob ==
    (op = "load_binary" /\ arg.file = <<>>) =>
        /\ ret.kind \in {"Ok", "Panic"}
        /\ ret.kind = "Panic" => calls[Len(calls)].result.kind = "Err"
        /\ (\A i \in DOMAIN calls : calls[i].fn # "read" => calls[i].result.kind = "Ok")
              => ret.kind = "Ok"
        /\ ret.kind = "Ok" =>
              /\ ret.value = [size |-> 0, bytes |-> <<>>]
              /\ Len(CallsTo(calls, "Blob::create_blob")) = 1
              /\ CallsTo(calls, "Blob::create_blob")[1].size = 0
              /\ Len(CallsTo(calls, "read")) = 1
              /\ CallsTo(calls, "read")[1].len = 0
              /\ CallsTo(calls, "read")[1].result \in {Ok(0), Err("io")}

C19_Witness ==
    /\ op = "load_binary"
    /\ arg.file = <<>>
    /\ ret = Ok([size |-> 0, bytes |-> <<>>])
    /\ calls[Len(calls)] = [fn |-> "read", len |-> 0, result |-> Ok(0)]

\* C20 as stated: after load_binary returns, the blob holds the bytes of
\* the file verbatim, whatever the length of the file and however many
\* bytes one read call transfers.
C20_BlobHoldsFileVerbatim ==
    (op = "load_binary" /\ ret.kind = "Ok") =>
        /\ ret.value.size = Len(arg.file)
        /\ ret.value.bytes = arg.file

\* C21: get_clock_calibration makes one native GetClockCalibration call; on
\* success it returns Ok((gpu, cpu)), the GPU counter first and the CPU
\* counter second, both as that one call wrote them; on a failure it
\* returns the native error demoted through DxError::from, never a pair.
C21_ClockCalibrationPair ==
    op = "get_clock_calibration" =>
        /\ Len(calls) = 1
        /\ calls[1].fn = "GetClockCalibration"
        /\ IF calls[1].result.kind = "Ok"
           THEN ret = Ok(<<calls[1].gpu, calls[1].cpu>>)
           ELSE ret = Err(DxError_from(calls[1].result.err))

C21_Witness ==
    /\ op = "get_clock_calibration"
    /\ ret.kind = "Ok"
    /\ calls[1].gpu # calls[1].cpu
    /\ ret.value[1] = calls[1].gpu

\* C22: when the native feature query runs on the raw struct that
\* FeatureLevels::into_raw returned, NumFeatureLevels is the number of
\* levels requested and pFeatureLevelsRequested points into storage that is
\* still allocated and holds their native values in request order.
C22_FeatureLevelArrayLiveAtQuery ==
    op = "check_feature_support" =>
        LET c == calls[1]
            requested == arg.feature_levels_requested
        IN /\ c.data.NumFeatureLevels = Len(requested)
           /\ Len(requested) > 0 => c.storage = "live"
           /\ c.seen = [i \in 1..Len(requested) |-> FeatureLevel_as_raw(requested[i])]

\* C23: in create_root_signature the arrays of native root parameters and
\* static samplers are allocated before D3D12SerializeRootSignature is
\* called and stay allocated until the function is done with its native
\* calls; the call finds NumParameters and NumStaticSamplers elements in
\* them, element i being the conversion of element i of the caller's
\* slice; and the arrays are freed once create_root_signature has returned.
C23_RootSignatureScratchLifetime ==
    op = "create_root_signature" =>
        /\ Len(mem) = Len(scratch)
        /\ \A i \in DOMAIN mem :
              /\ mem[i].items = as_slice(scratch[i])
              /\ mem[i].state = IF ret.kind = "Running" THEN "live" ELSE "freed"
        /\ \A k \in DOMAIN calls :
              calls[k].fn = "D3D12SerializeRootSignature" =>
                  LET c == calls[k]
                  IN /\ c.storage = <<"live", "live">>
                     /\ c.desc.NumParameters = Len(as_slice(scratch[1]))
                     /\ c.desc.NumStaticSamplers = Len(as_slice(scratch[2]))
                     /\ c.seen[1] = [i \in 1..Len(arg.desc.parameters) |->
                                        RootParameter_as_raw(arg.desc.parameters[i])]
                     /\ c.seen[2] = [i \in 1..Len(arg.desc.samplers) |->
                                        StaticSamplerDesc_as_raw(arg.desc.samplers[i])]

C23_Witness ==
    /\ op = "create_root_signature"
    /\ ret.kind = "Ok"
    /\ Len(arg.desc.parameters) = 2
    /\ Len(calls) = 2
    /\ calls[1].storage = <<"live", "live">>
    /\ Len(calls[1].seen[1]) = 2
    /\ mem[1].state = "freed"
    /\ mem[2].state = "freed"

\* The operations of the entry, the device and the command queue.
WrapperOps ==
    {"create_factory", "create_device", "create_debug",
     "create_command_allocator", "create_command_queue", "create_fence",
     "create_descriptor_heap", "create_render_target_view", "create_command_list",
     "create_root_signature",
     "execute_command_lists", "signal", "get_clock_calibration", "copy_tile_mappings"}

Failed(c) == "result" \in DOMAIN c /\ c.result.kind = "Err"

\* C24: nothing is retried.  An operation of the entry, the device or the
\* command queue makes each of its native calls at most once, whether the
\* call succeeds or fails; a native call that fails is the last one the
\* operation makes, and the operation returns an error to its caller.
C24_NothingRetried ==
    op \in WrapperOps =>
        /\ \A i \in DOMAIN calls, j \in DOMAIN calls :
              calls[i].fn = calls[j].fn => i = j
        /\ \A i \in DOMAIN calls :
              Failed(calls[i]) => /\ i = Len(calls)
                                  /\ ret.kind = "Err"

C24_Witness ==
    /\ op = "create_root_signature"
    /\ Len(calls) = 2
    /\ ~Failed(calls[1])
    /\ Failed(calls[2])
    /\ ret.kind = "Err"

NativeSubmits == {i \in DOMAIN calls : calls[i].fn = "ExecuteCommandLists"}

\* C25: execute_command_lists hands the whole iterable to the native queue
\* in one ExecuteCommandLists call: it never calls the native submit more
\* than once, and the one call it makes when it returns carries as many
\* lists as the iterable has, also when they are more than the 16 that fit
\* the inline storage.
C25_OneNativeSubmit ==
    op = "execute_command_lists" =>
        /\ Cardinality(NativeSubmits) <= 1
        /\ ret.kind = "Return" =>
              /\ Cardinality(NativeSubmits) = 1
              /\ \A i \in NativeSubmits :
                    Len(calls[i].lists) = Len(arg.command_lists)

C25_Witness ==
    /\ op = "execute_command_lists"
    /\ ret.kind = "Return"
    /\ Len(arg.command_lists) > InlineCap
    /\ Cardinality(NativeSubmits) = 1
    /\ Len(calls[1].lists) = Len(arg.command_lists)
    /\ scratch[1].spilled

CreatedBuffers == SelectSeq(calls, LAMBDA c : c.fn = "create_committed_resource")

\* C26: create_default_buffer asks for both buffers with the byte size of
\* the data slice (element count times element size): first the default
\* buffer, on the default heap in state Common, then the upload buffer, on
\* the upload heap in state GenericRead; it returns the two it was given as
\* (default, upload).
C26_DefaultAndUploadBuffers ==
    op = "create_default_buffer" =>
        /\ Len(CreatedBuffers) <= 2
        /\ \A k \in DOMAIN CreatedBuffers :
              /\ CreatedBuffers[k].width = arg.data.len * arg.data.elem_size
              /\ CreatedBuffers[k].heap = IF k = 1 THEN "default" ELSE "upload"
              /\ CreatedBuffers[k].state = IF k = 1 THEN "Common" ELSE "GenericRead"
        /\ ret.kind = "Ok" =>
              /\ Len(CreatedBuffers) = 2
              /\ ret.value = <<CreatedBuffers[1].result.value,
                               CreatedBuffers[2].result.value>>

C26_Witness ==
    /\ op = "create_default_buffer"
    /\ ret.kind = "Ok"
    /\ arg.data.len = 2
    /\ arg.data.elem_size = 4
    /\ CreatedBuffers[1].width = 8
    /\ CreatedBuffers[2].width = 8
    /\ ret.value[1] # ret.value[2]

\* The position in a log of its first call to the named function with the
\* given target, 0 if there is none.
SeekAt(log, on, to) ==
    IF \E i \in DOMAIN log : log[i].fn = "seek" /\ log[i].on = on /\ log[i].to = to
    THEN CHOOSE i \in DOMAIN log :
             /\ log[i].fn = "seek" /\ log[i].on = on /\ log[i].to = to
             /\ \A j \in 1..(i - 1) :
                   ~(log[j].fn = "seek" /\ log[j].on = on /\ log[j].to = to)
    ELSE 0

\* C27: load_binary sizes the blob from the length the seek to the end of
\* the file reports, then rewinds to offset 0, and issues exactly one read,
\* into a buffer of that length; it returns the blob, whose size is the
\* length of the file, whatever the read transferred or reported: a short
\* read is not made up for and a read error is ignored.
C27_SingleReadUnchecked ==
    op = "load_binary" =>
        LET reads == {i \in DOMAIN calls : calls[i].fn = "read"}
            blobs == {i \in DOMAIN calls : calls[i].fn = "Blob::create_blob"}
            end == SeekAt(calls, "file", "End(0)")
            rewind == SeekAt(calls, "reader", "Start(0)")
        IN /\ Cardinality(reads) <= 1
           /\ \A i \in blobs :
                 /\ end > 0 /\ end < i
                 /\ calls[end].result = Ok(calls[i].size)
                 /\ calls[i].size = Len(arg.file)
           /\ \A i \in reads :
                 /\ rewind > end /\ rewind < i
                 /\ \E b \in blobs : b < i /\ calls[i].len = calls[b].size
                 /\ ret.kind = "Ok"
                 /\ ret.value.size = Len(arg.file)
           /\ ret.kind = "Ok" => Cardinality(reads) = 1

C27_Witness ==
    /\ op = "load_binary"
    /\ Len(arg.file) = 2
    /\ calls[Len(calls)] = [fn |-> "read", len |-> 2, result |-> Ok(1)]
    /\ ret.kind = "Ok"
    /\ ret.value.size = 2
    /\ ret.value.bytes[2] = Uninit

\* The positions of an iterable whose command list cannot be cast to the
\* native base interface.
Uncastable == {i \in DOMAIN arg.command_lists :
                  as_raw(arg.command_lists[i]).obj \in arg.uncastable}

\* C28: if the cast of any command list of the iterable to the native base
\* interface fails, execute_command_lists panics and has made no native
\* call; a native ExecuteCommandLists is made only when every cast
\* succeeded, and it carries every list of the iterable: never a prefix.
C28_AllListsOrNone ==
    op = "execute_command_lists" =>
        /\ Uncastable # {} => /\ ret.kind = "Panic"
                              /\ calls = <<>>
        /\ \A k \in DOMAIN calls :
              calls[k].fn = "ExecuteCommandLists" =>
                  /\ Uncastable = {}
                  /\ calls[k].lists =
                        [i \in 1..Len(arg.command_lists) |->
                            Some(Raw("ID3D12CommandList",
                                     as_raw(arg.command_lists[i]).obj))]

C28_Witness ==
    /\ op = "execute_command_lists"
    /\ Len(arg.command_lists) = 3
    /\ Uncastable = {2}
    /\ Len(as_slice(scratch[1])) = 1
    /\ ret.kind = "Panic"
    /\ calls = <<>>

\* The occurrences of a native object among the lists of an iterable.
Occurrences(lists, o) ==
    Cardinality({i \in DOMAIN lists : as_raw(lists[i]).obj = o})

\* C29: execute_command_lists is reference-count neutral.  From the
\* collect to the drop of the scratch vector, the native call included,
\* each command list carries one reference more for each time it is in the
\* iterable; once execute_command_lists has returned (or panicked), every
\* object has the count it had before: one for each wrapper the client
\* holds.  This is so whether the lists fit the inline storage or not.
C29_SubmitIsRefCountNeutral ==
    \A o \in NativeObjects :
        refs[o] = live[o] + Owned(op, ret)[o]
                  + (IF op = "execute_command_lists" /\ ret.kind = "Running"
                     THEN Occurrences(arg.command_lists, o) ELSE 0)

C29_Witness ==
    /\ op = "execute_command_lists"
    /\ ret.kind = "Return"
    /\ Len(calls) = 1
    /\ Len(arg.command_lists) > InlineCap
    /\ scratch[1].spilled
    /\ Occurrences(arg.command_lists, "objA") > 0
    /\ Occurrences(arg.command_lists, "objB") > 0
    /\ refs = live

\* C30 as stated: offset returns the handle whose address is the sum of
\* the receiver's address and the offset as integers: offset(0) is the
\* identity, h.offset(a).offset(b) is at address h + (a + b), the receiver
\* is left as it was, and the address of the result is never below the
\* receiver's (no wrap-around modulo the width of usize).
C30_OffsetIsExactSum ==
    (op = "offset" /\ ret.kind = "Ok") =>
        /\ ret.value.first.ptr = arg.handle.ptr + arg.offsets[1]
        /\ ret.value.second.ptr = arg.handle.ptr + (arg.offsets[1] + arg.offsets[2])
        /\ arg.offsets[1] = 0 => ret.value.first = arg.handle
        /\ ret.value.receiver = arg.handle
        /\ ret.value.first.ptr >= arg.handle.ptr
        /\ ret.value.second.ptr >= ret.value.first.ptr

====
